---------------------------- MODULE Spec2Model ----------------------------
(***************************************************************************)
(* A model of the press-council pipeline engine:                           *)
(*   - query_model           (backend/openrouter.py): one remote call with *)
(*                           retry, exponential backoff and error          *)
(*                           classification, in soft or hard mode;         *)
(*   - query_models_parallel (backend/openrouter.py): fan-out / fan-in;    *)
(*   - stage1_write_drafts, stage2_evaluate_drafts (backend/evaluation.py).*)
(* Specifications:                                                         *)
(*   SpecQM : one query_model call, every input and every outcome sequence *)
(*   Spec   : one call of stage 1 or of stage 2, its unit calls interleaved *)
(*            at their suspension points (the network call and the backoff *)
(*            sleep).                                                      *)
(***************************************************************************)
EXTENDS Integers, Sequences, FiniteSets, TLC

VARIABLES
    qm,             \* SpecQM: the frame of the query_model call under study
    qm_log,         \* SpecQM: the outcomes of the attempts made so far, in order
    qm_slept,       \* SpecQM: the backoff delays slept so far, in order
    wf_pc,          \* Spec: position of the caller in stage 1 / stage 2
    request,        \* Spec: the arguments of the stage call
    tasks,          \* Spec: the query_model frames of the stage being gathered
    task_info,      \* Spec: stage 2's task_info list, parallel to tasks
    stage1_results, \* Spec: the Draft list returned by stage1_write_drafts
    stage2_results, \* Spec: the Evaluation list returned by stage2_evaluate_drafts
    label_to_model, \* Spec: the Label -> origin mapping returned by stage 2
    effective,      \* SpecResolve, SpecWF: the effective settings of the run
    bundle,         \* SpecWF: <<the dict the workflow returned>>, <<>> before
    events,         \* SpecEv: the types of the events yielded so far, in order
    store,          \* SpecEv: the turns appended to the conversation store
    title_task,     \* SpecEv: <<the frame of the title task>>, <<>> without one
    fn_args,        \* SpecParse, SpecAgg: the arguments of the function applied;
                    \* SpecWF: <<the locals of stage3_synthesize>>, <<>> before
    fn_result       \* SpecParse, SpecAgg: <<what the function returned>>, <<>> before

vars == <<qm, qm_log, qm_slept, wf_pc, request, tasks, task_info,
          stage1_results, stage2_results, label_to_model, effective, bundle,
          events, store, title_task, fn_args, fn_result>>

qmVars == <<qm, qm_log, qm_slept>>
wfVars == <<wf_pc, request, tasks, task_info, stage1_results, stage2_results,
            label_to_model>>
evVars == <<events, store, title_task>>
runVars == <<effective, bundle, evVars>>
fnVars == <<fn_args, fn_result>>

-----------------------------------------------------------------------------
(* Bounds of the model.                                                    *)

\* largest max_retries given to query_model in SpecQM
MaxRetries == 3
\* longest writers list given to stage 1
MaxWriters == 2
\* longest evaluation matrix given to stage 2
MaxMatrix == 2
\* longest Draft list given to stage 2
MaxDrafts == 2

-----------------------------------------------------------------------------
(* Values.                                                                 *)

\* Python's None where an optional text is expected (message.get('content')).
NoContent == [some |-> FALSE, text |-> <<>>]
Some(t) == [some |-> TRUE, text |-> t]

\* OpenRouterError.code when the constructor is given no code (code = None).
NoCode == -1

NoError == [message |-> "", code |-> NoCode, is_credit_error |-> FALSE]

\* Evaluator / writer texts, as token sequences: "H" is a FINAL RANKING header
\* line, "A".."C" are label tokens, "x" is any other text.
Texts == { <<"x">>, <<"H", "B", "A">> }

\* HTTP statuses for which response.raise_for_status() raises.
HttpStatuses == {400, 401, 402, 429, 500}

Outcome(k, s, c) == [kind |-> k, status |-> s, content |-> c]

\* What one attempt (client.post ... message = data[...]) can end in.
OkOutcomes == { Outcome("ok", 200, Some(t)) : t \in Texts } \cup { Outcome("ok", 200, NoContent) }
FailOutcomes ==
    { Outcome("malformed", 200, NoContent),
      Outcome("timeout", 0, NoContent),
      Outcome("transport", 0, NoContent) }
    \cup { Outcome("http", s, NoContent) : s \in HttpStatuses }
Outcomes == OkOutcomes \cup FailOutcomes


-----------------------------------------------------------------------------
(* query_model (backend/openrouter.py).                                    *)

\* The result of a call: still running, a response dict, None, or a raised
\* OpenRouterError.
Pending == [tag |-> "pending", content |-> NoContent, error |-> NoError]
Returned(c) == [tag |-> "return", content |-> c, error |-> NoError]
ReturnedNone == [tag |-> "none", content |-> NoContent, error |-> NoError]
Raised(e) == [tag |-> "raise", content |-> NoContent, error |-> e]

\* OpenRouterError(message, code, is_credit_error)
OpenRouterError(m, c, credit) == [message |-> m, code |-> c, is_credit_error |-> credit]

\* The frame of a call that has not started running.
NewCall(model, raise_on_error, max_retries) ==
    [model |-> model, raise_on_error |-> raise_on_error, max_retries |-> max_retries,
     attempt |-> 0, pc |-> "call", delay |-> 0, result |-> Pending]

\* for attempt in range(max_retries + 1): whether the loop has an iteration `attempt`
InRange(attempt, max_retries) == attempt >= 0 /\ attempt < max_retries + 1

\* 2 ** attempt
BackoffLinear(attempt) == attempt + 1
Backoff(attempt) == 2 ^ attempt

\* Whether the failed attempt is followed by sleep + continue.
ShouldRetryAnyStatus(o, attempt, max_retries) == attempt < max_retries
ShouldRetryNoRateLimit(o, attempt, max_retries) ==
    o.kind # "http" /\ attempt < max_retries
ShouldRetryNoMalformed(o, attempt, max_retries) ==
    CASE o.kind = "timeout"   -> attempt < max_retries
      [] o.kind = "http"      -> o.status = 429 /\ attempt < max_retries
      [] o.kind = "malformed" -> FALSE
      [] OTHER                -> attempt < max_retries
ShouldRetry(o, attempt, max_retries) ==
    CASE o.kind = "timeout" -> attempt < max_retries
      [] o.kind = "http"    -> o.status = 429 /\ attempt < max_retries
      [] OTHER              -> attempt < max_retries

\* is_credit_error = status_code == 402
IsCreditErrorWide(status_code) == status_code \in {402, 429}
IsCreditError(status_code) == status_code = 402

\* The user-facing message of the HTTPStatusError branch.
HttpErrorMsg(status_code) ==
    IF IsCreditError(status_code) THEN "credit: OpenRouter credits are insufficient"
    ELSE IF status_code = 400 THEN "invalid request"
    ELSE IF status_code = 401 THEN "auth error: the API key is invalid"
    ELSE IF status_code = 429 THEN "rate limit: too many requests"
    ELSE "API error"

\* The OpenRouterError the final failed attempt is reported with in hard mode.
ErrorOfNoTimeoutCode(o) ==
    CASE o.kind = "timeout" -> OpenRouterError("timeout: connection timed out", NoCode, FALSE)
      [] o.kind = "http"    -> OpenRouterError(HttpErrorMsg(o.status), o.status,
                                               IsCreditError(o.status))
      [] OTHER              -> OpenRouterError("connection error", NoCode, FALSE)
ErrorOf(o) ==
    CASE o.kind = "timeout" -> OpenRouterError("timeout: connection timed out", 408, FALSE)
      [] o.kind = "http"    -> OpenRouterError(HttpErrorMsg(o.status), o.status,
                                               IsCreditError(o.status))
      [] OTHER              -> OpenRouterError("connection error", NoCode, FALSE)

\* if raise_on_error: raise OpenRouterError(...)  /  return None
FailAlwaysRaise(raise_on_error, e) == Raised(e)
Fail(raise_on_error, e) == IF raise_on_error THEN Raised(e) ELSE ReturnedNone

\* The coroutine starts running: the loop's first iteration posts the request,
\* or the loop has no iteration and the function falls to its last line.
QmEnter(c) ==
    IF InRange(0, c.max_retries)
    THEN [c EXCEPT !.pc = "post", !.attempt = 0]
    ELSE [c EXCEPT !.pc = "done", !.result = ReturnedNone]

\* The awaited post of iteration c.attempt ends in outcome o.
QmResponseNoReturn(c, o) ==
    IF ShouldRetry(o, c.attempt, c.max_retries)
    THEN [c EXCEPT !.pc = "sleep", !.delay = Backoff(c.attempt)]
    ELSE IF o.kind = "ok"
    THEN [c EXCEPT !.pc = "done", !.result = Returned(o.content)]
    ELSE [c EXCEPT !.pc = "done", !.result = Fail(c.raise_on_error, ErrorOf(o))]
QmResponse(c, o) ==
    IF o.kind = "ok"
    THEN [c EXCEPT !.pc = "done", !.result = Returned(o.content)]
    ELSE IF ShouldRetry(o, c.attempt, c.max_retries)
    THEN [c EXCEPT !.pc = "sleep", !.delay = Backoff(c.attempt)]
    ELSE [c EXCEPT !.pc = "done", !.result = Fail(c.raise_on_error, ErrorOf(o))]

\* asyncio.sleep returns; continue with the next iteration of the loop.
QmWake(c) ==
    IF InRange(c.attempt + 1, c.max_retries)
    THEN [c EXCEPT !.pc = "post", !.attempt = c.attempt + 1, !.delay = 0]
    ELSE [c EXCEPT !.pc = "done", !.delay = 0, !.result = ReturnedNone]

Settled(c) == c.pc = "done"

-----------------------------------------------------------------------------
(* SpecQM: one query_model call.                                           *)

QMModel == "openai/gpt-4o"

\* Python's None for an optional list argument, and a list that was given.
NoList == [given |-> FALSE, items |-> <<>>]
List(items) == [given |-> TRUE, items |-> items]

\* Python's None for an optional string argument (mode_id).
NoneStr == "<None>"

NoRequest == [writers |-> NoList, mode_id |-> NoneStr, matrix |-> NoList, drafts |-> <<>>]

\* The effective settings before run_press_release_workflow has computed them.
NoEffective == [mode |-> NoneStr, writers |-> <<>>, matrix |-> <<>>, editor |-> NoneStr,
                criticism_level |-> 0]
InitRunIdle ==
    /\ effective = NoEffective
    /\ bundle = <<>>
    /\ events = <<>>
    /\ store = <<>>
    /\ title_task = <<>>
    /\ fn_args = <<>>
    /\ fn_result = <<>>

InitWfIdle ==
    /\ wf_pc = "idle"
    /\ request = NoRequest
    /\ tasks = <<>>
    /\ task_info = <<>>
    /\ stage1_results = <<>>
    /\ stage2_results = <<>>
    /\ label_to_model = <<>>

InitQM ==
    /\ \E r \in BOOLEAN, n \in (-1)..MaxRetries : qm = NewCall(QMModel, r, n)
    /\ qm_log = <<>>
    /\ qm_slept = <<>>
    /\ InitWfIdle
    /\ InitRunIdle

QMStart ==
    /\ qm.pc = "call"
    /\ qm' = QmEnter(qm)
    /\ UNCHANGED <<qm_log, qm_slept>>
    /\ UNCHANGED <<wfVars, runVars, fnVars>>

QMAttempt ==
    /\ qm.pc = "post"
    /\ \E o \in Outcomes :
          /\ qm' = QmResponse(qm, o)
          /\ qm_log' = Append(qm_log, o)
    /\ UNCHANGED qm_slept
    /\ UNCHANGED <<wfVars, runVars, fnVars>>

QMSleep ==
    /\ qm.pc = "sleep"
    /\ qm' = QmWake(qm)
    /\ qm_slept' = Append(qm_slept, qm.delay)
    /\ UNCHANGED qm_log
    /\ UNCHANGED <<wfVars, runVars, fnVars>>

NextQM == QMStart \/ QMAttempt \/ QMSleep

SpecQM == InitQM /\ [][NextQM]_vars


-----------------------------------------------------------------------------
(* The catalog (backend/config.py).                                        *)

Block(id, name, model) == [id |-> id, name |-> name, model |-> model]

LLM_BLOCKS ==
    { Block("gemini-flash", "Gemini 2.0 Flash", "google/gemini-2.0-flash-exp:free"),
      Block("gemini-flash-thinking", "Gemini 2.0 Flash Thinking",
            "google/gemini-2.0-flash-thinking-exp:free"),
      Block("llama-70b", "Llama 3.3 70B", "meta-llama/llama-3.3-70b-instruct"),
      Block("qwen-32b", "Qwen 2.5 32B", "qwen/qwen-2.5-32b-instruct"),
      Block("mistral-small", "Mistral Small", "mistralai/mistral-small-24b-instruct-2501"),
      Block("gemini-pro", "Gemini 1.5 Pro", "google/gemini-pro-1.5"),
      Block("claude-haiku", "Claude 3.5 Haiku", "anthropic/claude-3.5-haiku"),
      Block("deepseek-chat", "DeepSeek V3", "deepseek/deepseek-chat"),
      Block("claude-sonnet", "Claude 4 Sonnet", "anthropic/claude-sonnet-4"),
      Block("claude-opus", "Claude 4 Opus", "anthropic/claude-opus-4"),
      Block("gpt-4o", "GPT-4o", "openai/gpt-4o"),
      Block("gpt-4-turbo", "GPT-4 Turbo", "openai/gpt-4-turbo"),
      Block("grok-2", "Grok 2", "x-ai/grok-2-1212"),
      Block("gemini-exp", "Gemini Exp 1206", "google/gemini-exp-1206:free") }

\* get_llm_block(block_id) is not None
KnownBlock(block_id) == \E b \in LLM_BLOCKS : b.id = block_id
\* get_llm_block(block_id), for a known id
get_llm_block(block_id) == CHOOSE b \in LLM_BLOCKS : b.id = block_id

Persona(id, name) == [id |-> id, name |-> name]

\* In the dict's insertion order.
JOURNALIST_PERSONAS ==
    << Persona("nikkei", "Nikkei reporter"),
       Persona("lifestyle", "National daily, lifestyle desk"),
       Persona("web", "Web reporter"),
       Persona("trade", "Trade magazine"),
       Persona("tv", "Business TV") >>

KnownPersona(persona_id) ==
    \E i \in 1..Len(JOURNALIST_PERSONAS) : JOURNALIST_PERSONAS[i].id = persona_id
get_persona(persona_id) ==
    JOURNALIST_PERSONAS[CHOOSE i \in 1..Len(JOURNALIST_PERSONAS) :
                            JOURNALIST_PERSONAS[i].id = persona_id]

\* [(llm, persona) for llm in llms for persona in personas]
Product(llms, personas) ==
    [k \in 1..(Len(llms) * Len(personas)) |->
        << llms[((k - 1) \div Len(personas)) + 1], personas[((k - 1) % Len(personas)) + 1] >>]

MODE_CONFIGS ==
    { [id |-> "simple",
       default_writers |-> <<"gemini-flash", "llama-70b", "deepseek-chat">>,
       default_matrix |-> << <<"gemini-flash", "nikkei">>, <<"llama-70b", "lifestyle">>,
                             <<"deepseek-chat", "web">>, <<"gemini-flash", "trade">>,
                             <<"llama-70b", "tv">> >>,
       default_editor |-> "gemini-flash"],
      [id |-> "standard",
       default_writers |-> <<"gemini-pro", "claude-haiku", "deepseek-chat">>,
       default_matrix |-> << <<"gemini-pro", "nikkei">>, <<"claude-haiku", "nikkei">>,
                             <<"claude-haiku", "lifestyle">>, <<"deepseek-chat", "lifestyle">>,
                             <<"gemini-pro", "web">>, <<"deepseek-chat", "web">>,
                             <<"claude-haiku", "trade">>, <<"gemini-pro", "trade">>,
                             <<"deepseek-chat", "tv">>, <<"gemini-pro", "tv">> >>,
       default_editor |-> "gemini-pro"],
      [id |-> "full",
       default_writers |-> <<"claude-sonnet", "gpt-4o", "gemini-pro", "deepseek-chat">>,
       default_matrix |-> Product(<<"claude-sonnet", "gpt-4o", "gemini-pro", "deepseek-chat">>,
                                  <<"nikkei", "lifestyle", "web", "trade", "tv">>),
       default_editor |-> "claude-sonnet"] }

KnownMode(mode_id) == \E c \in MODE_CONFIGS : c.id = mode_id
get_mode_config(mode_id) == CHOOSE c \in MODE_CONFIGS : c.id = mode_id

\* `if mode_id:` followed by `if config:`
ModeApplies(mode_id) == mode_id # NoneStr /\ mode_id # "" /\ KnownMode(mode_id)

-----------------------------------------------------------------------------
(* Sequence helpers.                                                       *)

Range(s) == { s[i] : i \in 1..Len(s) }
SeqsUpTo(S, n) == UNION { [1..k -> S] : k \in 0..n }
Distinct(s) == \A i, j \in 1..Len(s) : s[i] = s[j] => i = j

-----------------------------------------------------------------------------
(* query_models_parallel (backend/openrouter.py) and asyncio.gather.       *)

\* max_retries: int = 2
DefaultMaxRetries == 2

\* query_model(model, messages): soft mode, default retry budget.
StageCallHard(model) == NewCall(model, TRUE, DefaultMaxRetries)
StageCall(model) == NewCall(model, FALSE, DefaultMaxRetries)

\* tasks = [query_model(model, messages) for model in models]
TasksFor(models) == [i \in 1..Len(models) |-> StageCall(models[i])]

\* The gather's future is done: every task has settled, or, without
\* return_exceptions, a task has raised (the first exception is propagated at
\* once and the other tasks keep running).
GatherDoneFirst(ts, return_exceptions) ==
    ts = <<>> \/ \E i \in 1..Len(ts) : Settled(ts[i])
GatherDone(ts, return_exceptions) ==
    \/ \A i \in 1..Len(ts) : Settled(ts[i])
    \/ (~return_exceptions /\ \E i \in 1..Len(ts) : ts[i].result.tag = "raise")

GatherRaises(ts, return_exceptions) ==
    ~return_exceptions /\ \E i \in 1..Len(ts) : ts[i].result.tag = "raise"

\* {model: response for model, response in zip(models, responses)}: a later
\* entry of the same key replaces an earlier one.
ResponsesDict(models, ts) ==
    [m \in Range(models) |->
        ts[CHOOSE i \in 1..Len(models) :
              models[i] = m /\ \A j \in (i + 1)..Len(models) : models[j] # m].result]

-----------------------------------------------------------------------------
(* stage1_write_drafts (backend/evaluation.py).                            *)

\* The writers the call uses: the argument, else the mode's default, else the
\* hardcoded fallback.
ResolveWriters(writers, mode_id) ==
    IF writers.given THEN writers.items
    ELSE IF ModeApplies(mode_id) THEN get_mode_config(mode_id).default_writers
    ELSE <<"opus", "gpt", "gemini">>

\* valid_writers: the blocks of the known ids, in list order.
ValidWritersAllOrNothing(writers) ==
    IF \A i \in 1..Len(writers) : KnownBlock(writers[i])
    THEN [i \in 1..Len(writers) |-> get_llm_block(writers[i])]
    ELSE <<>>
ValidWriters(writers) ==
    LET ids == SelectSeq(writers, KnownBlock)
    IN  [i \in 1..Len(ids) |-> get_llm_block(ids[i])]

\* writer_models
WriterModels(valid_writers) == [i \in 1..Len(valid_writers) |-> valid_writers[i].model]

\* `responses[block.model]` is truthy: a response dict, not None.
IsTruthyAlways(response) == TRUE
IsTruthy(response) == response.tag = "return"

Draft(block, content) ==
    [llm_id |-> block.id, llm_name |-> block.name, model |-> block.model, content |-> content]

\* The results loop: one Draft per valid writer whose model has a truthy entry.
BuildDrafts(valid_writers, responses) ==
    LET Keep(b) == b.model \in DOMAIN responses /\ IsTruthy(responses[b.model])
        kept == SelectSeq(valid_writers, Keep)
    IN  [i \in 1..Len(kept) |-> Draft(kept[i], responses[kept[i].model].content)]

-----------------------------------------------------------------------------
(* parse_ranking_from_text (backend/evaluation.py), on token sequences:    *)
(* "H" is a header line (FINAL RANKING, optional colon, newline), "NN" a   *)
(* blank line, a letter a label token, anything else other text.           *)

LETTERS == <<"A", "B", "C", "D", "E", "F">>

\* f"<prefix>{label}"
FullLabel(letter) == <<"label", letter>>

RECURSIVE DropBlank(_)
\* \s*\n after the header swallows the blank lines that follow it directly.
DropBlank(toks) ==
    IF toks # <<>> /\ Head(toks) = "NN" THEN DropBlank(Tail(toks)) ELSE toks

RECURSIVE UpToBlank(_)
\* (.*?)(?:\n\n|\Z)
UpToBlank(toks) ==
    IF toks = <<>> \/ Head(toks) = "NN" THEN <<>>
    ELSE <<Head(toks)>> \o UpToBlank(Tail(toks))

RankingSectionToEnd(text) ==
    IF \E i \in 1..Len(text) : text[i] = "H"
    THEN LET h == CHOOSE i \in 1..Len(text) :
                      text[i] = "H" /\ \A j \in 1..(i - 1) : text[j] # "H"
         IN  DropBlank(SubSeq(text, h + 1, Len(text)))
    ELSE text
RankingSection(text) ==
    IF \E i \in 1..Len(text) : text[i] = "H"
    THEN LET h == CHOOSE i \in 1..Len(text) :
                      text[i] = "H" /\ \A j \in 1..(i - 1) : text[j] # "H"
         IN  UpToBlank(DropBlank(SubSeq(text, h + 1, Len(text))))
    ELSE text

RECURSIVE Unique(_, _)
Unique(labels, seen) ==
    IF labels = <<>> THEN <<>>
    ELSE IF Head(labels) \in seen THEN Unique(Tail(labels), seen)
    ELSE <<Head(labels)>> \o Unique(Tail(labels), seen \cup {Head(labels)})

parse_ranking_keep_last(text) ==
    LET IsLabel(t) == t \in Range(LETTERS)
        letters == SelectSeq(RankingSection(text), IsLabel)
        Later(i) == \E j \in (i + 1)..Len(letters) : letters[j] = letters[i]
        kept == { i \in 1..Len(letters) : ~Later(i) }
        Nth(n) == CHOOSE i \in kept : Cardinality({ j \in kept : j < i }) = n - 1
    IN  [n \in 1..Cardinality(kept) |-> FullLabel(letters[Nth(n)])]
parse_ranking_from_text(text) ==
    LET IsLabel(t) == t \in Range(LETTERS)
        letters == SelectSeq(RankingSection(text), IsLabel)
    IN  Unique([i \in 1..Len(letters) |-> FullLabel(letters[i])], {})

-----------------------------------------------------------------------------
(* stage2_evaluate_drafts (backend/evaluation.py).                         *)

ResolveMatrix(matrix, mode_id) ==
    IF matrix.given THEN matrix.items
    ELSE IF ModeApplies(mode_id) THEN get_mode_config(mode_id).default_matrix
    ELSE [i \in 1..Len(JOURNALIST_PERSONAS) |-> <<"gemini", JOURNALIST_PERSONAS[i].id>>]

\* create_label_mapping(drafts, key="llm_id"): the i-th draft gets the i-th label.
create_label_mapping(drafts) ==
    [i \in 1..Len(drafts) |-> [label |-> FullLabel(LETTERS[i]), llm_id |-> drafts[i].llm_id]]

\* The pairs that are not skipped.
ValidPair(pair) == KnownBlock(pair[1]) /\ KnownPersona(pair[2])

TaskInfo(pair) ==
    [llm_id |-> pair[1], llm_name |-> get_llm_block(pair[1]).name,
     model |-> get_llm_block(pair[1]).model,
     persona_id |-> pair[2], persona_name |-> get_persona(pair[2]).name]

TaskInfos(matrix) ==
    LET pairs == SelectSeq(matrix, ValidPair)
    IN  [i \in 1..Len(pairs) |-> TaskInfo(pairs[i])]

Evaluation(info, content) ==
    [llm_id |-> info.llm_id, llm_name |-> info.llm_name, model |-> info.model,
     persona_id |-> info.persona_id, persona_name |-> info.persona_name,
     evaluation |-> content.text,
     parsed_ranking |-> parse_ranking_from_text(content.text)]

\* The positions whose result is neither an exception nor None.
RECURSIVE KeptPositions(_, _)
KeptPositions(ts, i) ==
    IF i > Len(ts) THEN <<>>
    ELSE IF ts[i].result.tag = "return" THEN <<i>> \o KeptPositions(ts, i + 1)
    ELSE KeptPositions(ts, i + 1)

\* re.search on a None text raises TypeError.
ProcessRaises(ts) ==
    \E i \in 1..Len(ts) : ts[i].result.tag = "return" /\ ~ts[i].result.content.some

ProcessResultsUnaligned(infos, ts) ==
    LET kept == KeptPositions(ts, 1)
    IN  [k \in 1..Len(kept) |-> Evaluation(infos[k], ts[kept[k]].result.content)]
ProcessResults(infos, ts) ==
    LET kept == KeptPositions(ts, 1)
    IN  [k \in 1..Len(kept) |-> Evaluation(infos[kept[k]], ts[kept[k]].result.content)]

-----------------------------------------------------------------------------
(* Spec: one call of stage1_write_drafts or of stage2_evaluate_drafts, the  *)
(* unit calls of the stage interleaved at their suspension points.         *)

\* most unit calls one stage may start in the model
MaxUnits == 3

WriterIds == {"gpt-4o", "gemini-pro", "opus"}
ModeIds == {NoneStr, "simple", "express"}
MatrixPairs == { <<"gpt-4o", "nikkei">>, <<"gemini-pro", "web">>,
                 <<"opus", "nikkei">>, <<"gpt-4o", "sports">> }

WriterInputs == {NoList} \cup { List(ws) : ws \in SeqsUpTo(WriterIds, MaxWriters) }
MatrixInputs == {NoList} \cup { List(mx) : mx \in SeqsUpTo(MatrixPairs, MaxMatrix) }

\* The Draft lists stage 2 is called with: the first k of these writers, each
\* with a text.
DraftWriters == <<"gpt-4o", "gemini-pro", "claude-haiku", "deepseek-chat">>
DraftInputs ==
    { [i \in 1..k |-> Draft(get_llm_block(DraftWriters[i]), Some(<<"x">>))] : k \in 0..MaxDrafts }

\* A call stage1_write_drafts(user_input, writers, mode_id).
InitStage1 ==
    /\ wf_pc = "s1_call"
    /\ \E ws \in WriterInputs, mode \in ModeIds :
          /\ Len(ValidWriters(ResolveWriters(ws, mode))) <= MaxUnits
          /\ request = [writers |-> ws, mode_id |-> mode, matrix |-> NoList, drafts |-> <<>>]

\* A call stage2_evaluate_drafts(drafts, matrix, mode_id, criticism_level).
InitStage2 ==
    /\ wf_pc = "s2_call"
    /\ \E ds \in DraftInputs, mx \in MatrixInputs, mode \in ModeIds :
          /\ Len(TaskInfos(ResolveMatrix(mx, mode))) <= MaxUnits
          /\ request = [writers |-> NoList, mode_id |-> mode, matrix |-> mx, drafts |-> ds]

Init ==
    /\ qm = NewCall(QMModel, FALSE, 0)
    /\ qm_log = <<>>
    /\ qm_slept = <<>>
    /\ (InitStage1 \/ InitStage2)
    /\ tasks = <<>>
    /\ task_info = <<>>
    /\ stage1_results = <<>>
    /\ stage2_results = <<>>
    /\ label_to_model = <<>>
    /\ InitRunIdle

\* stage1_write_drafts up to the await of query_models_parallel's gather.
S1Call ==
    /\ wf_pc = "s1_call"
    /\ LET valid_writers == ValidWriters(ResolveWriters(request.writers, request.mode_id))
       IN  IF valid_writers = <<>>
           THEN /\ wf_pc' = "s1_value_error"
                /\ tasks' = <<>>
           ELSE /\ wf_pc' = "s1_gather"
                /\ tasks' = TasksFor(WriterModels(valid_writers))
    /\ UNCHANGED <<request, task_info, stage1_results, stage2_results, label_to_model>>
    /\ UNCHANGED <<qmVars, fnVars, runVars>>

\* A unit coroutine starts running.
TaskStart(i) ==
    /\ tasks[i].pc = "call"
    /\ tasks' = [tasks EXCEPT ![i] = QmEnter(tasks[i])]
    /\ UNCHANGED <<wf_pc, request, task_info, stage1_results, stage2_results, label_to_model>>
    /\ UNCHANGED <<qmVars, fnVars, runVars>>

\* A unit's awaited request ends.
TaskAttempt(i) ==
    /\ tasks[i].pc = "post"
    /\ \E o \in Outcomes : tasks' = [tasks EXCEPT ![i] = QmResponse(tasks[i], o)]
    /\ UNCHANGED <<wf_pc, request, task_info, stage1_results, stage2_results, label_to_model>>
    /\ UNCHANGED <<qmVars, fnVars, runVars>>

\* A unit's backoff sleep ends.
TaskSleep(i) ==
    /\ tasks[i].pc = "sleep"
    /\ tasks' = [tasks EXCEPT ![i] = QmWake(tasks[i])]
    /\ UNCHANGED <<wf_pc, request, task_info, stage1_results, stage2_results, label_to_model>>
    /\ UNCHANGED <<qmVars, fnVars, runVars>>

TaskStep(i) == TaskStart(i) \/ TaskAttempt(i) \/ TaskSleep(i)

\* query_models_parallel's gather is done; the dict and the Draft list are built.
S1Return ==
    /\ wf_pc = "s1_gather"
    /\ GatherDone(tasks, FALSE)
    /\ IF GatherRaises(tasks, FALSE)
       THEN /\ wf_pc' = "s1_raised"
            /\ stage1_results' = <<>>
       ELSE LET valid_writers == ValidWriters(ResolveWriters(request.writers, request.mode_id))
                responses == ResponsesDict(WriterModels(valid_writers), tasks)
            IN  /\ wf_pc' = "s1_returned"
                /\ stage1_results' = BuildDrafts(valid_writers, responses)
    /\ UNCHANGED <<request, tasks, task_info, stage2_results, label_to_model>>
    /\ UNCHANGED <<qmVars, fnVars, runVars>>

\* stage2_evaluate_drafts up to the await of its gather, or to its early
\* return on an empty matrix.
S2Call ==
    /\ wf_pc = "s2_call"
    /\ LET matrix == ResolveMatrix(request.matrix, request.mode_id)
           infos == TaskInfos(matrix)
       IN  /\ label_to_model' = create_label_mapping(request.drafts)
           /\ IF matrix = <<>>
              THEN /\ wf_pc' = "s2_returned"
                   /\ tasks' = <<>>
                   /\ task_info' = <<>>
              ELSE /\ wf_pc' = "s2_gather"
                   /\ tasks' = [i \in 1..Len(infos) |-> StageCall(infos[i].model)]
                   /\ task_info' = infos
    /\ UNCHANGED <<request, stage1_results, stage2_results>>
    /\ UNCHANGED <<qmVars, fnVars, runVars>>

\* gather(*tasks, return_exceptions=True) is done; the results are processed.
S2Return ==
    /\ wf_pc = "s2_gather"
    /\ GatherDone(tasks, TRUE)
    /\ IF ProcessRaises(tasks)
       THEN /\ wf_pc' = "s2_raised"
            /\ stage2_results' = <<>>
       ELSE /\ wf_pc' = "s2_returned"
            /\ stage2_results' = ProcessResults(task_info, tasks)
    /\ UNCHANGED <<request, tasks, task_info, stage1_results, label_to_model>>
    /\ UNCHANGED <<qmVars, fnVars, runVars>>

Next ==
    \/ S1Call
    \/ \E i \in 1..Len(tasks) : TaskStart(i)
    \/ \E i \in 1..Len(tasks) : TaskAttempt(i)
    \/ \E i \in 1..Len(tasks) : TaskSleep(i)
    \/ S1Return
    \/ S2Call
    \/ S2Return

Spec == Init /\ [][Next]_vars

-----------------------------------------------------------------------------
(* Properties of query_model, checked under SpecQM.                        *)

LastOutcome == qm_log[Len(qm_log)]
QMDone == qm.pc = "done"
QMFailed == QMDone /\ (qm_log = <<>> \/ LastOutcome.kind # "ok")

\* The failures the retry policy names as retried: timeout, transport, HTTP 429.
Transient(o) ==
    \/ o.kind \in {"timeout", "transport"}
    \/ (o.kind = "http" /\ o.status = 429)

\* A remote rejection other than rate-limit.
Rejection(o) == o.kind = "http" /\ o.status # 429

\* C1: for max_retries = n >= 0 the call makes at most n+1 attempts, has ended
\* once n+1 attempts were made, is never stuck before its end, and a successful
\* attempt is the last one and ends the call.
C1_BoundedAttempts ==
    qm.max_retries >= 0 =>
        /\ Len(qm_log) <= qm.max_retries + 1
        /\ Len(qm_slept) <= qm.max_retries
        /\ (Len(qm_log) = qm.max_retries + 1 => QMDone)
        /\ (~QMDone => ENABLED NextQM)
        /\ \A i \in 1..Len(qm_log) :
              qm_log[i].kind = "ok" => (i = Len(qm_log) /\ QMDone /\ qm.result.tag = "return")

\* C1 witness: a call with n = MaxRetries that used all n+1 attempts and ended
\* with a success on the last one.
C1_Witness ==
    /\ qm.max_retries = MaxRetries
    /\ Len(qm_log) = MaxRetries + 1
    /\ LastOutcome.kind = "ok"
    /\ QMDone

\* C2: a timeout, transport failure or HTTP 429 at attempt i-1 < max_retries is
\* followed by the backoff sleep and attempt i; such a failure is the last
\* attempt of an ended call only when i-1 = max_retries.
C2_TransientRetried ==
    \A i \in 1..Len(qm_log) :
        Transient(qm_log[i]) =>
            /\ (i - 1 < qm.max_retries /\ i = Len(qm_log)) =>
                  (qm.pc = "sleep" \/ (qm.pc = "post" /\ qm.attempt = i))
            /\ (i = Len(qm_log) /\ QMDone) => i - 1 = qm.max_retries

\* C2 witness: a 429, a timeout and a transport failure were each retried.
C2_Witness ==
    /\ Len(qm_log) = 4
    /\ qm_log[1].kind = "http" /\ qm_log[1].status = 429
    /\ qm_log[2].kind = "timeout"
    /\ qm_log[3].kind = "transport"

\* C3: an HTTP rejection other than 429 is the last attempt of the call, which
\* has ended, and no backoff delay follows it.
C3_RejectionIsFinal ==
    \A i \in 1..Len(qm_log) :
        Rejection(qm_log[i]) =>
            /\ i = Len(qm_log)
            /\ QMDone
            /\ Len(qm_slept) = i - 1

\* C3 witness: a 402 on the first attempt of a call with retry budget left.
C3_Witness ==
    /\ qm.max_retries >= 2
    /\ Len(qm_log) = 1
    /\ qm_log[1].kind = "http" /\ qm_log[1].status = 402
    /\ QMDone

\* C4: the k-th delay slept (after failed attempt k-1) is 2^(k-1), whatever the
\* failure was; delays only follow attempts, and an ended call has slept
\* exactly once between consecutive attempts and not after the last.
C4_BackoffDelays ==
    /\ \A k \in 1..Len(qm_slept) : qm_slept[k] = 2 ^ (k - 1)
    /\ Len(qm_slept) <= Len(qm_log)
    /\ (qm.pc = "sleep" => qm.delay = 2 ^ (Len(qm_log) - 1))
    /\ (qm.pc = "post" => Len(qm_slept) = Len(qm_log))
    /\ (QMDone /\ qm_log # <<>> => Len(qm_slept) = Len(qm_log) - 1)
    /\ (qm_log = <<>> => qm_slept = <<>>)

\* C4 witness: delays 1, 2, 4 were slept after a timeout, a transport failure
\* and a 429, and the final attempt failed.
C4_Witness ==
    /\ qm_slept = <<1, 2, 4>>
    /\ {qm_log[1].kind, qm_log[2].kind, qm_log[3].kind} = {"timeout", "transport", "http"}
    /\ QMFailed

\* C5: with raise_on_error = False the call never raises, and every call that
\* ends without a success returns None.
C5_SoftNeverRaises ==
    ~qm.raise_on_error =>
        /\ qm.result.tag # "raise"
        /\ (QMFailed => qm.result.tag = "none")

\* C5 witness: a soft call that failed on a non-retried rejection.
C5_Witness ==
    /\ ~qm.raise_on_error
    /\ QMFailed
    /\ qm_log # <<>>
    /\ LastOutcome.kind = "http"

\* C6: with raise_on_error = True and max_retries >= 0 the call never returns
\* None; a call that ends without a success raises an OpenRouterError with a
\* non-empty message and code 408 (timeout), the HTTP status (rejection or
\* exhausted rate limit) or no code (other failure).
C6_HardAlwaysRaises ==
    (qm.raise_on_error /\ qm.max_retries >= 0) =>
        /\ qm.result.tag # "none"
        /\ QMFailed =>
              /\ qm.result.tag = "raise"
              /\ qm.result.error.message # ""
              /\ qm.result.error.code =
                    (CASE LastOutcome.kind = "timeout" -> 408
                       [] LastOutcome.kind = "http"    -> LastOutcome.status
                       [] OTHER                        -> NoCode)

\* C6 witness: a hard call whose retries were exhausted by timeouts.
C6_Witness ==
    /\ qm.raise_on_error
    /\ qm.max_retries >= 1
    /\ QMFailed
    /\ Len(qm_log) = qm.max_retries + 1
    /\ LastOutcome.kind = "timeout"

\* C7: a raised OpenRouterError has is_credit_error exactly when the final
\* attempt ended with HTTP 402.
C7_CreditFlag ==
    qm.result.tag = "raise" =>
        (qm.result.error.is_credit_error
            <=> (qm_log # <<>> /\ LastOutcome.kind = "http" /\ LastOutcome.status = 402))

\* C7 witness: a raised error with the flag set.
C7_Witness ==
    /\ qm.result.tag = "raise"
    /\ qm.result.error.is_credit_error

\* C7 witness, other side: an exhausted rate limit raised with the flag clear.
C7_WitnessClear ==
    /\ qm.result.tag = "raise"
    /\ LastOutcome.kind = "http" /\ LastOutcome.status = 429
    /\ ~qm.result.error.is_credit_error

-----------------------------------------------------------------------------
(* Properties of the dispatcher and of stage 1, checked under Spec.        *)

Stage1Running == wf_pc \in {"s1_call", "s1_gather", "s1_returned", "s1_value_error", "s1_raised"}

\* The generator list and the known generators of the stage 1 call.
Generators == ResolveWriters(request.writers, request.mode_id)
KnownGenerators == ValidWriters(Generators)

\* One Draft per position whose own call returned a response, in order, with
\* the content of that call.
RECURSIVE PositionalDrafts(_, _, _)
PositionalDrafts(valid_writers, ts, i) ==
    IF i > Len(valid_writers) THEN <<>>
    ELSE (IF ts[i].result.tag = "return"
          THEN <<Draft(valid_writers[i], ts[i].result.content)>>
          ELSE <<>>) \o PositionalDrafts(valid_writers, ts, i + 1)

\* C8: a stage has returned only when every unit call it started has settled;
\* the draft stage's gather never ends early on a unit's exception (no unit
\* raises); a unit that has not settled can always take its next step,
\* whatever its siblings have done.
C8_JoinBarrier ==
    /\ wf_pc \in {"s1_returned", "s1_raised", "s2_returned", "s2_raised"} =>
          \A i \in 1..Len(tasks) : Settled(tasks[i])
    /\ wf_pc # "s1_raised"
    /\ \A i \in 1..Len(tasks) :
          /\ tasks[i].result.tag # "raise"
          /\ ~Settled(tasks[i]) => ENABLED TaskStep(i)

\* C8 witness: the draft stage returned after a unit that failed at once and a
\* sibling that succeeded on its last retry.
C8_Witness ==
    /\ wf_pc = "s1_returned"
    /\ Len(tasks) = 2
    /\ tasks[1].result.tag = "none" /\ tasks[1].attempt = 0
    /\ tasks[2].result.tag = "return" /\ tasks[2].attempt = DefaultMaxRetries

\* The same for the evaluation stage.
C8_WitnessStage2 ==
    /\ wf_pc = "s2_returned"
    /\ Len(tasks) = 2
    /\ tasks[1].result.tag = "none" /\ tasks[1].attempt = 0
    /\ tasks[2].result.tag = "return" /\ tasks[2].attempt = DefaultMaxRetries

\* C9: for every generator list, stage 1 returns a Draft for the i-th known
\* generator exactly when the i-th call returned a response, with that call's
\* content.
C9_PositionalCorrespondence ==
    wf_pc = "s1_returned" =>
        stage1_results = PositionalDrafts(KnownGenerators, tasks, 1)

\* C10: for a generator list of pairwise distinct ids with at least one known
\* id, stage 1 never raises and returns one Draft per known generator whose
\* call returned a response, in list order; no more Drafts than ids, none for
\* an unknown id.
C10_DraftsOfDistinctGenerators ==
    (Stage1Running /\ Distinct(Generators) /\ KnownGenerators # <<>>) =>
        /\ wf_pc \notin {"s1_value_error", "s1_raised"}
        /\ wf_pc = "s1_returned" =>
              /\ stage1_results = PositionalDrafts(KnownGenerators, tasks, 1)
              /\ Len(stage1_results) <= Len(Generators)
              /\ \A k \in 1..Len(stage1_results) :
                    /\ KnownBlock(stage1_results[k].llm_id)
                    /\ stage1_results[k].llm_id \in Range(Generators)

\* C10 witness: two distinct known generators, the first call absent, the
\* second returned: one Draft, for the second.
C10_Witness ==
    /\ wf_pc = "s1_returned"
    /\ request.writers = List(<<"gpt-4o", "gemini-pro">>)
    /\ tasks[1].result.tag = "none"
    /\ tasks[2].result.tag = "return"
    /\ Len(stage1_results) = 1
    /\ stage1_results[1].llm_id = "gemini-pro"

\* The same with an unknown id dropped.
C10_WitnessUnknown ==
    /\ wf_pc = "s1_returned"
    /\ request.writers = List(<<"opus", "gpt-4o">>)
    /\ Len(stage1_results) = 1
    /\ stage1_results[1].llm_id = "gpt-4o"

-----------------------------------------------------------------------------
(* Properties of stage 1 and stage 2 as functions, checked under Spec.     *)

Stage2Running == wf_pc \in {"s2_call", "s2_gather", "s2_returned", "s2_raised"}

SomeKnownGenerator == \E i \in 1..Len(Generators) : KnownBlock(Generators[i])

\* The models of the known ids of a list, in list order.
RECURSIVE KnownModels(_)
KnownModels(ids) ==
    IF ids = <<>> THEN <<>>
    ELSE (IF KnownBlock(Head(ids)) THEN <<get_llm_block(Head(ids)).model>> ELSE <<>>)
         \o KnownModels(Tail(ids))

\* C11: stage 1 raises exactly when no id of the resolved generator list is
\* known, and then no call was created; with at least one known id it creates
\* one call per known id, in list order, the unknown ids dropped.
C11_FailsIffNoKnownGenerator ==
    (Stage1Running /\ wf_pc # "s1_call") =>
        /\ wf_pc \in {"s1_value_error", "s1_raised"} => (~SomeKnownGenerator /\ tasks = <<>>)
        /\ ~SomeKnownGenerator => wf_pc = "s1_value_error"
        /\ SomeKnownGenerator =>
              [i \in 1..Len(tasks) |-> tasks[i].model] = KnownModels(Generators)

\* C11 witness: a given list of unknown ids only made stage 1 raise.
C11_Witness ==
    /\ wf_pc = "s1_value_error"
    /\ request.writers.given
    /\ Len(Generators) = 2
    /\ tasks = <<>>

\* C11 witness, other side: an unknown id next to a known one was dropped.
C11_WitnessDropped ==
    /\ wf_pc = "s1_gather"
    /\ request.writers = List(<<"opus", "gpt-4o">>)
    /\ Len(tasks) = 1

\* The pairs of the resolved matrix whose ids are both known, in order.
Assignments == ResolveMatrix(request.matrix, request.mode_id)
ValidAssignments == SelectSeq(Assignments, ValidPair)

\* C12: for every assignment list and every outcome of every evaluator call,
\* stage 2 never raises, creates calls for the pairs with known ids only, and
\* returns Evaluations of such pairs only.
C12_Stage2NeverRaises ==
    Stage2Running =>
        /\ wf_pc # "s2_raised"
        /\ wf_pc \in {"s2_gather", "s2_returned"} =>
              /\ Len(tasks) = Len(ValidAssignments)
              /\ \A i \in 1..Len(tasks) :
                    tasks[i].model = get_llm_block(ValidAssignments[i][1]).model
        /\ \A k \in 1..Len(stage2_results) :
              \E i \in 1..Len(ValidAssignments) :
                  /\ stage2_results[k].llm_id = ValidAssignments[i][1]
                  /\ stage2_results[k].persona_id = ValidAssignments[i][2]

\* What holds of stage 2 instead: it raises only after its gather, when a
\* response carried a null content; the calls and the Evaluations are those of
\* the pairs with known ids.
C12_Stage2RaisesOnNullOnly ==
    Stage2Running =>
        /\ wf_pc = "s2_raised" =>
              \E i \in 1..Len(tasks) :
                  tasks[i].result.tag = "return" /\ ~tasks[i].result.content.some
        /\ wf_pc \in {"s2_gather", "s2_returned", "s2_raised"} =>
              /\ Len(tasks) = Len(ValidAssignments)
              /\ \A i \in 1..Len(tasks) :
                    tasks[i].model = get_llm_block(ValidAssignments[i][1]).model

-----------------------------------------------------------------------------
(* run_press_release_workflow (backend/evaluation.py): the effective       *)
(* settings, and stage 1 up to its gather.                                 *)

DEFAULT_MODE == "standard"
DEFAULT_CRITICISM_LEVEL == 3

\* Python's None for the optional criticism_level, and a level that was given.
NoLevel == [given |-> FALSE, value |-> 0]
Level(v) == [given |-> TRUE, value |-> v]

\* The truth value Python's `or` tests on each kind of argument.
TruthyList(l) == l.given /\ l.items # <<>>
TruthyStr(str) == str # NoneStr /\ str # ""
TruthyInt(n) == n.given /\ n.value # 0

\* `if mode_id is None: mode_id = DEFAULT_MODE`
EffectiveMode(mode_id) == IF mode_id = NoneStr THEN DEFAULT_MODE ELSE mode_id

\* `writers or (config.default_writers if config else [...])`, mode already effective
EffectiveWriters(writers, mode) ==
    IF TruthyList(writers) THEN writers.items
    ELSE IF KnownMode(mode) THEN get_mode_config(mode).default_writers
    ELSE <<"opus", "gpt", "gemini">>

EffectiveMatrix(matrix, mode) ==
    IF TruthyList(matrix) THEN matrix.items
    ELSE IF KnownMode(mode) THEN get_mode_config(mode).default_matrix
    ELSE <<>>

EffectiveEditor(editor, mode) ==
    IF TruthyStr(editor) THEN editor
    ELSE IF KnownMode(mode) THEN get_mode_config(mode).default_editor
    ELSE "opus"

EffectiveCriticism(criticism_level) ==
    IF TruthyInt(criticism_level) THEN criticism_level.value ELSE DEFAULT_CRITICISM_LEVEL

Effective(req) ==
    LET mode == EffectiveMode(req.mode_id)
    IN  [mode |-> mode,
         writers |-> EffectiveWriters(req.writers, mode),
         matrix |-> EffectiveMatrix(req.matrix, mode),
         editor |-> EffectiveEditor(req.editor, mode),
         criticism_level |-> EffectiveCriticism(req.criticism_level)]

\* A call run_press_release_workflow(user_input, writers, matrix, editor,
\* criticism_level, mode_id).
WorkflowRequest(ws, mx, ed, cl, mode) ==
    [writers |-> ws, matrix |-> mx, editor |-> ed, criticism_level |-> cl,
     mode_id |-> mode, drafts |-> <<>>]

\* The workflow's first lines: the effective settings.
WfEnter ==
    /\ wf_pc = "wf_call"
    /\ effective' = Effective(request)
    /\ wf_pc' = "wf_s1_call"
    /\ UNCHANGED <<request, tasks, task_info, stage1_results, stage2_results, label_to_model>>
    /\ UNCHANGED <<qmVars, fnVars, bundle, evVars>>

\* The workflow calls stage1_write_drafts(user_input, writers=effective_writers,
\* mode_id=mode_id), which runs up to the await of its gather or raises.
WfStage1Call ==
    /\ wf_pc = "wf_s1_call"
    /\ LET valid_writers == ValidWriters(ResolveWriters(List(effective.writers), effective.mode))
       IN  IF valid_writers = <<>>
           THEN /\ wf_pc' = "wf_s1_value_error"
                /\ tasks' = <<>>
           ELSE /\ wf_pc' = "wf_s1_gather"
                /\ tasks' = TasksFor(WriterModels(valid_writers))
    /\ UNCHANGED <<request, task_info, stage1_results, stage2_results, label_to_model>>
    /\ UNCHANGED <<qmVars, fnVars, runVars>>

\* The fixed texts of the degraded results (Japanese in the source).
NoDraftsMessage == "draft creation failed"
SynthesisFailedMessage == "the editor could not produce the final version"

\* The dict returned when stage 1 yields no draft.
FailedBundle(eff) ==
    [stage1 |-> <<>>,
     stage2 |-> <<>>,
     stage3 |-> [llm_id |-> eff.editor,
                 llm_name |-> IF KnownBlock(eff.editor) THEN get_llm_block(eff.editor).name ELSE "",
                 model |-> "",
                 content |-> Some(<<NoDraftsMessage>>)],
     metadata |-> [mode |-> eff.mode, error |-> "No drafts generated"]]

\* The dict returned after stage 3; the analytics entries of the metadata are
\* functions of stage2 and label_to_model and are not repeated here.
CompleteBundle(drafts, evaluations, stage3_result, eff, l2m) ==
    [stage1 |-> drafts,
     stage2 |-> evaluations,
     stage3 |-> stage3_result,
     metadata |-> [mode |-> eff.mode, criticism_level |-> eff.criticism_level,
                   writers |-> eff.writers, matrix |-> eff.matrix, editor |-> eff.editor,
                   label_to_model |-> l2m]]

\* query_models_parallel is done; stage 1 builds its Draft list and the
\* workflow returns the failure dict when the list is empty.
WfStage1ReturnAnyway ==
    /\ wf_pc = "wf_s1_gather"
    /\ GatherDone(tasks, FALSE)
    /\ LET valid_writers == ValidWriters(ResolveWriters(List(effective.writers), effective.mode))
           drafts == BuildDrafts(valid_writers, ResponsesDict(WriterModels(valid_writers), tasks))
       IN  /\ stage1_results' = drafts
           /\ wf_pc' = "wf_s2_call"
           /\ bundle' = bundle
    /\ UNCHANGED <<request, tasks, task_info, stage2_results, label_to_model, effective>>
    /\ UNCHANGED <<qmVars, fnVars, evVars>>
WfStage1Return ==
    /\ wf_pc = "wf_s1_gather"
    /\ GatherDone(tasks, FALSE)
    /\ IF GatherRaises(tasks, FALSE)
       THEN /\ wf_pc' = "wf_s1_raised"
            /\ UNCHANGED <<stage1_results, bundle>>
       ELSE LET valid_writers == ValidWriters(ResolveWriters(List(effective.writers), effective.mode))
                drafts == BuildDrafts(valid_writers, ResponsesDict(WriterModels(valid_writers), tasks))
            IN  /\ stage1_results' = drafts
                /\ IF drafts = <<>>
                   THEN /\ wf_pc' = "wf_returned"
                        /\ bundle' = <<FailedBundle(effective)>>
                   ELSE /\ wf_pc' = "wf_s2_call"
                        /\ bundle' = bundle
    /\ UNCHANGED <<request, tasks, task_info, stage2_results, label_to_model, effective>>
    /\ UNCHANGED <<qmVars, fnVars, evVars>>

\* The workflow calls stage2_evaluate_drafts(drafts, matrix=effective_matrix,
\* mode_id, criticism_level), which runs up to the await of its gather or
\* returns at once on an empty matrix.
WfStage2Call ==
    /\ wf_pc = "wf_s2_call"
    /\ LET matrix == ResolveMatrix(List(effective.matrix), effective.mode)
           infos == TaskInfos(matrix)
       IN  /\ label_to_model' = create_label_mapping(stage1_results)
           /\ IF matrix = <<>>
              THEN /\ wf_pc' = "wf_s3_call"
                   /\ tasks' = <<>>
                   /\ task_info' = <<>>
              ELSE /\ wf_pc' = "wf_s2_gather"
                   /\ tasks' = [i \in 1..Len(infos) |-> StageCall(infos[i].model)]
                   /\ task_info' = infos
    /\ UNCHANGED <<request, stage1_results, stage2_results>>
    /\ UNCHANGED <<qmVars, fnVars, runVars>>

\* Stage 2's gather is done; its results loop runs, and the workflow computes
\* the analytics.
WfStage2Return ==
    /\ wf_pc = "wf_s2_gather"
    /\ GatherDone(tasks, TRUE)
    /\ IF ProcessRaises(tasks)
       THEN /\ wf_pc' = "wf_s2_type_error"
            /\ stage2_results' = <<>>
       ELSE /\ wf_pc' = "wf_s3_call"
            /\ stage2_results' = ProcessResults(task_info, tasks)
    /\ UNCHANGED <<request, tasks, task_info, stage1_results, label_to_model>>
    /\ UNCHANGED <<qmVars, fnVars, runVars>>

\* stage3_synthesize's own resolution of its editor argument.
ResolveEditor(editor, mode_id) ==
    IF editor # NoneStr THEN editor
    ELSE IF ModeApplies(mode_id) THEN get_mode_config(mode_id).default_editor
    ELSE "opus"

\* build_editor_prompt(original_request, drafts, evaluations, rankings) returns
\* a prompt.
PromptBuilt(drafts, evaluations) == TRUE

\* query_model(block.model, messages, timeout=180.0, raise_on_error=True)
Stage3Call(model) == NewCall(model, TRUE, DefaultMaxRetries)

\* The dict stage3_synthesize returns for the settled call's result.
Stage3ResultNoFlag(editor, res) ==
    LET block == get_llm_block(editor)
    IN  [llm_id |-> editor, llm_name |-> block.name, model |-> block.model,
         content |-> IF res.tag = "raise" THEN Some(<<"(", res.error.message, ")">>)
                     ELSE res.content]
Stage3Result(editor, res) ==
    LET block == get_llm_block(editor)
    IN  IF res.tag = "raise"
        THEN [llm_id |-> editor, llm_name |-> block.name, model |-> block.model,
              content |-> Some(<<"(", res.error.message, ")">>),
              error |-> TRUE,
              error_code |-> res.error.code,
              is_credit_error |-> res.error.is_credit_error]
        ELSE IF ~IsTruthy(res)
        THEN [llm_id |-> editor, llm_name |-> block.name, model |-> block.model,
              content |-> Some(<<SynthesisFailedMessage>>),
              error |-> TRUE]
        ELSE [llm_id |-> editor, llm_name |-> block.name, model |-> block.model,
              content |-> res.content]

\* The dict stage3_synthesize returns when the prompt could not be built.
PromptErrorResult(editor) ==
    LET block == get_llm_block(editor)
    IN  [llm_id |-> editor, llm_name |-> block.name, model |-> block.model,
         content |-> Some(<<"(", "prompt error", ")">>)]

\* stage3_synthesize's own label_to_model = create_label_mapping(drafts,
\* key="llm_id"), rebuilt from the drafts it was passed; the first definition
\* keys the mapping on the drafts' display names instead.
Stage3LabelToModelByName(drafts) ==
    [i \in 1..Len(drafts) |-> [label |-> FullLabel(LETTERS[i]), llm_id |-> drafts[i].llm_name]]
Stage3LabelToModel(drafts) == create_label_mapping(drafts)

\* The workflow calls stage3_synthesize(..., editor=effective_editor, mode_id),
\* which raises on an unknown editor, or runs up to the await of query_model.
WfStage3CallDegrading ==
    /\ wf_pc = "wf_s3_call"
    /\ LET editor == ResolveEditor(effective.editor, effective.mode)
       IN  IF ~KnownBlock(editor)
           THEN /\ wf_pc' = "wf_returned"
                /\ tasks' = <<>>
                /\ bundle' = <<CompleteBundle(stage1_results, stage2_results,
                                              [llm_id |-> editor, llm_name |-> "", model |-> "",
                                               content |-> Some(<<SynthesisFailedMessage>>),
                                               error |-> TRUE],
                                              effective, label_to_model)>>
                /\ fn_args' = fn_args
           ELSE IF ~PromptBuilt(stage1_results, stage2_results)
           THEN /\ wf_pc' = "wf_returned"
                /\ tasks' = <<>>
                /\ bundle' = <<CompleteBundle(stage1_results, stage2_results,
                                              PromptErrorResult(editor), effective, label_to_model)>>
                /\ fn_args' = <<[label_to_model |-> Stage3LabelToModel(stage1_results)]>>
           ELSE /\ wf_pc' = "wf_s3_await"
                /\ tasks' = <<Stage3Call(get_llm_block(editor).model)>>
                /\ bundle' = bundle
                /\ fn_args' = <<[label_to_model |-> Stage3LabelToModel(stage1_results)]>>
    /\ UNCHANGED <<request, task_info, stage1_results, stage2_results, label_to_model, effective>>
    /\ UNCHANGED <<qmVars, fn_result, evVars>>
WfStage3Call ==
    /\ wf_pc = "wf_s3_call"
    /\ LET editor == ResolveEditor(effective.editor, effective.mode)
       IN  IF ~KnownBlock(editor)
           THEN /\ wf_pc' = "wf_s3_value_error"
                /\ tasks' = <<>>
                /\ bundle' = bundle
                /\ fn_args' = fn_args
           ELSE IF ~PromptBuilt(stage1_results, stage2_results)
           THEN /\ wf_pc' = "wf_returned"
                /\ tasks' = <<>>
                /\ bundle' = <<CompleteBundle(stage1_results, stage2_results,
                                              PromptErrorResult(editor), effective, label_to_model)>>
                /\ fn_args' = <<[label_to_model |-> Stage3LabelToModel(stage1_results)]>>
           ELSE /\ wf_pc' = "wf_s3_await"
                /\ tasks' = <<Stage3Call(get_llm_block(editor).model)>>
                /\ bundle' = bundle
                /\ fn_args' = <<[label_to_model |-> Stage3LabelToModel(stage1_results)]>>
    /\ UNCHANGED <<request, task_info, stage1_results, stage2_results, label_to_model, effective>>
    /\ UNCHANGED <<qmVars, fn_result, evVars>>

\* The synthesizer call has settled; stage3_synthesize returns its dict and the
\* workflow returns the bundle.
WfStage3Return ==
    /\ wf_pc = "wf_s3_await"
    /\ Settled(tasks[1])
    /\ wf_pc' = "wf_returned"
    /\ bundle' = <<CompleteBundle(stage1_results, stage2_results,
                                  Stage3Result(ResolveEditor(effective.editor, effective.mode),
                                               tasks[1].result),
                                  effective, label_to_model)>>
    /\ UNCHANGED <<request, tasks, task_info, stage1_results, stage2_results, label_to_model,
                   effective>>
    /\ UNCHANGED <<qmVars, fnVars, evVars>>

-----------------------------------------------------------------------------
(* SpecResolve: the entry of run_press_release_workflow over its arguments. *)

EditorInputs == {NoneStr, "", "gpt-4o", "opus"}
CriticismInputs == {NoLevel} \cup { Level(v) : v \in 1..5 }
WorkflowModeIds == {NoneStr, "simple", "standard", "express"}

InitResolve ==
    /\ qm = NewCall(QMModel, FALSE, 0)
    /\ qm_log = <<>>
    /\ qm_slept = <<>>
    /\ wf_pc = "wf_call"
    /\ \E ws \in WriterInputs, mx \in MatrixInputs, ed \in EditorInputs,
          cl \in CriticismInputs, mode \in WorkflowModeIds :
          request = WorkflowRequest(ws, mx, ed, cl, mode)
    /\ tasks = <<>>
    /\ task_info = <<>>
    /\ stage1_results = <<>>
    /\ stage2_results = <<>>
    /\ label_to_model = <<>>
    /\ InitRunIdle

NextResolve ==
    \/ WfEnter
    \/ WfStage1Call

SpecResolve == InitResolve /\ [][NextResolve]_vars

-----------------------------------------------------------------------------
(* SpecWF: one run of run_press_release_workflow, the unit calls of each    *)
(* stage interleaved at their suspension points.                           *)

\* most unit calls one stage of a run may start in the model
MaxRunUnits == 2

RunEditorInputs == {NoneStr, "gpt-4o"}
RunModeIds == {NoneStr, "express"}
RunMatrixPairs == { <<"gpt-4o", "nikkei">>, <<"gemini-pro", "web">>, <<"opus", "nikkei">> }
RunMatrixInputs == {NoList} \cup { List(mx) : mx \in SeqsUpTo(RunMatrixPairs, MaxMatrix) }

\* What one attempt of a unit call of a run can end in.
RunOutcomes ==
    { Outcome("ok", 200, Some(<<"H", "B", "A">>)), Outcome("ok", 200, NoContent) }
    \cup FailOutcomes

InitWF ==
    /\ qm = NewCall(QMModel, FALSE, 0)
    /\ qm_log = <<>>
    /\ qm_slept = <<>>
    /\ wf_pc = "wf_call"
    /\ \E ws \in WriterInputs, mx \in RunMatrixInputs, ed \in RunEditorInputs,
          mode \in RunModeIds :
          LET req == WorkflowRequest(ws, mx, ed, NoLevel, mode)
              eff == Effective(req)
          IN  /\ Len(ValidWriters(eff.writers)) <= MaxRunUnits
              /\ Len(TaskInfos(eff.matrix)) <= MaxRunUnits
              /\ request = req
    /\ tasks = <<>>
    /\ task_info = <<>>
    /\ stage1_results = <<>>
    /\ stage2_results = <<>>
    /\ label_to_model = <<>>
    /\ InitRunIdle

\* A unit's awaited request ends.
RunTaskAttempt(i) ==
    /\ tasks[i].pc = "post"
    /\ \E o \in RunOutcomes : tasks' = [tasks EXCEPT ![i] = QmResponse(tasks[i], o)]
    /\ UNCHANGED <<wf_pc, request, task_info, stage1_results, stage2_results, label_to_model>>
    /\ UNCHANGED <<qmVars, fnVars, runVars>>

NextWF ==
    \/ WfEnter
    \/ WfStage1Call
    \/ \E i \in 1..Len(tasks) : TaskStart(i)
    \/ \E i \in 1..Len(tasks) : RunTaskAttempt(i)
    \/ \E i \in 1..Len(tasks) : TaskSleep(i)
    \/ WfStage1Return
    \/ WfStage2Call
    \/ WfStage2Return
    \/ WfStage3Call
    \/ WfStage3Return

SpecWF == InitWF /\ [][NextWF]_vars

-----------------------------------------------------------------------------
(* Properties of the parameter resolution, checked under SpecResolve.      *)

Resolved == wf_pc \in {"wf_s1_call", "wf_s1_gather", "wf_s1_value_error"}

\* The preset a request names, the default mode when it names none.
NamedPreset == IF request.mode_id = NoneStr THEN DEFAULT_MODE ELSE request.mode_id

\* C18: each of the generator list, the assignment list, the synthesizer id
\* and the severity level resolves to the supplied value if one was supplied,
\* else to the named preset's default, else to the hardcoded fallback, each
\* from its own argument and the preset alone.
C18_ThreeTierResolution ==
    Resolved =>
        /\ effective.writers =
              IF request.writers.given THEN request.writers.items
              ELSE IF KnownMode(NamedPreset) THEN get_mode_config(NamedPreset).default_writers
              ELSE <<"opus", "gpt", "gemini">>
        /\ effective.matrix =
              IF request.matrix.given THEN request.matrix.items
              ELSE IF KnownMode(NamedPreset) THEN get_mode_config(NamedPreset).default_matrix
              ELSE <<>>
        /\ effective.editor =
              IF request.editor # NoneStr THEN request.editor
              ELSE IF KnownMode(NamedPreset) THEN get_mode_config(NamedPreset).default_editor
              ELSE "opus"
        /\ effective.criticism_level =
              IF request.criticism_level.given THEN request.criticism_level.value
              ELSE DEFAULT_CRITICISM_LEVEL

\* No override is supplied with the request.
NoOverrides ==
    /\ ~request.writers.given
    /\ ~request.matrix.given
    /\ request.editor = NoneStr
    /\ ~request.criticism_level.given

\* The settings of the same request made without a mode_id.
WithoutMode == Effective([request EXCEPT !.mode_id = NoneStr])

\* C19: without overrides, a run with an unknown mode_id resolves the same
\* generator list, assignment list and synthesizer id as the run without a
\* mode_id, and creates the same generator calls.
C19_UnknownPresetAsNoPreset ==
    (Resolved /\ NoOverrides /\ request.mode_id # NoneStr /\ ~KnownMode(request.mode_id)) =>
        /\ effective.writers = WithoutMode.writers
        /\ effective.matrix = WithoutMode.matrix
        /\ effective.editor = WithoutMode.editor
        /\ wf_pc # "wf_s1_call" =>
              /\ wf_pc = "wf_s1_gather"
              /\ tasks = TasksFor(WriterModels(ValidWriters(WithoutMode.writers)))

-----------------------------------------------------------------------------
(* Properties of run_press_release_workflow, checked under SpecWF.         *)

\* The run is over: it returned its bundle or it raised.
WfRaised == wf_pc \in {"wf_s1_value_error", "wf_s1_raised", "wf_s2_type_error",
                       "wf_s3_value_error"}
WfOver == wf_pc = "wf_returned" \/ WfRaised

\* Stage 1 has returned to the workflow.
PastStage1 == wf_pc \in {"wf_s2_call", "wf_s2_gather", "wf_s2_type_error", "wf_s3_call",
                         "wf_s3_await", "wf_s3_value_error", "wf_returned"}

\* The frames are those of generator or evaluator calls / of the synthesizer call.
SoftFrames == \A i \in 1..Len(tasks) : ~tasks[i].raise_on_error
SynthesizerFrame == Len(tasks) = 1 /\ tasks[1].raise_on_error

\* C13: the workflow advances to its next step only when every unit call it
\* has created so far has settled: the evaluator calls are created after all
\* generator calls settled, the synthesizer call after all evaluator calls.
C13_StrictlySequential ==
    [][ wf_pc' # wf_pc => \A i \in 1..Len(tasks) : Settled(tasks[i]) ]_vars

\* C13 witness: the synthesizer call is in flight after two generator calls
\* and two evaluator calls gave their results.
C13_Witness ==
    /\ wf_pc = "wf_s3_await"
    /\ tasks[1].pc = "post"
    /\ Len(stage1_results) = 2
    /\ Len(stage2_results) = 2

\* C14: a run whose stage 1 yields no draft returns the failure bundle (empty
\* Draft and Evaluation lists, the explanatory message, the error entry in the
\* metadata) and has created generator calls only; a run goes on to stage 2
\* only if some generator call returned a response.
C14_ZeroDraftsFailed ==
    /\ (PastStage1 /\ stage1_results = <<>>) =>
          /\ wf_pc = "wf_returned"
          /\ Len(bundle) = 1
          /\ bundle[1].stage1 = <<>>
          /\ bundle[1].stage2 = <<>>
          /\ bundle[1].stage3.content = Some(<<NoDraftsMessage>>)
          /\ bundle[1].metadata = [mode |-> effective.mode, error |-> "No drafts generated"]
          /\ SoftFrames
          /\ Len(tasks) = Len(ValidWriters(effective.writers))
          /\ task_info = <<>>
          /\ stage2_results = <<>>
    /\ wf_pc = "wf_s2_call" => \E i \in 1..Len(tasks) : tasks[i].result.tag = "return"

\* C14 witness: two generator calls both returned None and the run returned.
C14_Witness ==
    /\ wf_pc = "wf_returned"
    /\ Len(tasks) = 2
    /\ \A i \in 1..2 : tasks[i].result.tag = "none"
    /\ stage1_results = <<>>

\* C15: a run that has at least one Draft and a known synthesizer id ends
\* only after its synthesizer call was issued, whatever the evaluator calls
\* gave.
C15_DraftsLeadToSynthesis ==
    (WfOver /\ stage1_results # <<>> /\ KnownBlock(effective.editor)) =>
        /\ wf_pc = "wf_returned"
        /\ SynthesizerFrame

\* Where the run of C15 can end without a synthesizer call: only in stage 2's
\* TypeError.
C15_OnlyStage2Aborts ==
    (WfOver /\ stage1_results # <<>> /\ KnownBlock(effective.editor)) =>
        \/ wf_pc = "wf_returned" /\ SynthesizerFrame
        \/ wf_pc = "wf_s2_type_error"

\* C16: when the synthesizer call raised its OpenRouterError the run still
\* returns the complete bundle: stage3 carries error = TRUE, the error's code
\* and is_credit_error, and a content embedding the non-empty message; stage1
\* and stage2 are the lists of the two stages; the metadata has no error entry.
C16_SynthesisErrorDegrades ==
    (wf_pc = "wf_returned" /\ SynthesizerFrame /\ tasks[1].result.tag = "raise") =>
        LET e == tasks[1].result.error
            b == bundle[1]
        IN  /\ DOMAIN b.stage3 = {"llm_id", "llm_name", "model", "content", "error",
                                  "error_code", "is_credit_error"}
            /\ b.stage3.error = TRUE
            /\ b.stage3.error_code = e.code
            /\ b.stage3.is_credit_error = e.is_credit_error
            /\ e.message # ""
            /\ b.stage3.content = Some(<<"(", e.message, ")">>)
            /\ b.stage1 = stage1_results /\ stage1_results # <<>>
            /\ b.stage2 = stage2_results
            /\ "error" \notin DOMAIN b.metadata

\* C16 witness: the synthesizer call was refused for missing credits after
\* drafts and evaluations existed.
C16_Witness ==
    /\ wf_pc = "wf_returned"
    /\ SynthesizerFrame
    /\ tasks[1].result.tag = "raise"
    /\ tasks[1].result.error.is_credit_error
    /\ Len(stage1_results) = 2
    /\ Len(stage2_results) >= 1
    /\ bundle[1].stage3.is_credit_error

\* C16 witness: a timeout after the retries, code 408.
C16_WitnessTimeout ==
    /\ wf_pc = "wf_returned"
    /\ SynthesizerFrame
    /\ tasks[1].attempt = DefaultMaxRetries
    /\ bundle[1].stage3.content = Some(<<"(", "timeout: connection timed out", ")">>)

\* C17: a run whose generator list has a known id and whose synthesizer id is
\* known never raises, whatever its calls end in.
C17_NoBackendFailureRaises ==
    (wf_pc # "wf_call"
       /\ (\E i \in 1..Len(effective.writers) : KnownBlock(effective.writers[i]))
       /\ KnownBlock(effective.editor)) =>
        ~WfRaised

-----------------------------------------------------------------------------
(* create_press_release_stream and its event_generator (backend/main.py).  *)

\* The endpoint's settings; the mode was checked to be one of MODE_CONFIGS.
StreamMode(mode) == IF TruthyStr(mode) THEN mode ELSE DEFAULT_MODE
StreamEffective(req) ==
    LET mode_id == StreamMode(req.mode_id)
        mode_config == get_mode_config(mode_id)
    IN  [mode |-> mode_id,
         writers |-> IF TruthyList(req.writers) THEN req.writers.items
                     ELSE mode_config.default_writers,
         matrix |-> IF TruthyList(req.matrix) THEN req.matrix.items
                    ELSE mode_config.default_matrix,
         editor |-> IF TruthyStr(req.editor) THEN req.editor ELSE mode_config.default_editor,
         criticism_level |-> EffectiveCriticism(req.criticism_level)]

\* A request to the endpoint, and whether the conversation had no message.
StreamRequest(ws, mx, ed, cl, mode, first) ==
    [writers |-> ws, matrix |-> mx, editor |-> ed, criticism_level |-> cl,
     mode_id |-> mode, drafts |-> <<>>, is_first_message |-> first]

TITLE_GENERATION_MODEL == "google/gemini-3-pro-preview"

\* generate_conversation_title's call query_model(TITLE_GENERATION_MODEL, messages, timeout=30.0)
TitleCall == NewCall(TITLE_GENERATION_MODEL, FALSE, DefaultMaxRetries)

\* generate_conversation_title after its call: None gives the fallback title,
\* a null content makes .strip() raise.
TitleRaises(res) == res.tag = "return" /\ ~res.content.some

\* storage.add_user_message / storage.add_assistant_message
AddTurn(st, role) == Append(st, role)

\* The generator's first segment: the user turn is stored, config is yielded,
\* the title task is created, stage1_start is yielded and stage 1 runs up to
\* its gather, or raises into the handler, which yields error.
EvStart ==
    /\ wf_pc = "ev_call"
    /\ LET eff == StreamEffective(request)
           valid_writers == ValidWriters(ResolveWriters(List(eff.writers), eff.mode))
       IN  /\ effective' = eff
           /\ store' = AddTurn(store, "user")
           /\ title_task' = IF request.is_first_message THEN <<TitleCall>> ELSE <<>>
           /\ IF valid_writers = <<>>
              THEN /\ events' = <<"config", "stage1_start", "error">>
                   /\ wf_pc' = "ev_done"
                   /\ tasks' = <<>>
              ELSE /\ events' = <<"config", "stage1_start">>
                   /\ wf_pc' = "ev_s1_gather"
                   /\ tasks' = TasksFor(WriterModels(valid_writers))
    /\ UNCHANGED <<request, task_info, stage1_results, stage2_results, label_to_model, bundle>>
    /\ UNCHANGED <<qmVars, fnVars>>

\* Stage 1 returns; stage1_complete and stage2_start are yielded and stage 2
\* runs up to its gather (the effective matrix is never empty here).
EvStage1Return ==
    /\ wf_pc = "ev_s1_gather"
    /\ GatherDone(tasks, FALSE)
    /\ LET valid_writers == ValidWriters(ResolveWriters(List(effective.writers), effective.mode))
           drafts == BuildDrafts(valid_writers, ResponsesDict(WriterModels(valid_writers), tasks))
           matrix == ResolveMatrix(List(effective.matrix), effective.mode)
           infos == TaskInfos(matrix)
       IN  /\ stage1_results' = drafts
           /\ events' = events \o <<"stage1_complete", "stage2_start">>
           /\ label_to_model' = create_label_mapping(drafts)
           /\ tasks' = [i \in 1..Len(infos) |-> StageCall(infos[i].model)]
           /\ task_info' = infos
           /\ wf_pc' = "ev_s2_gather"
    /\ UNCHANGED <<request, stage2_results, effective, bundle, store, title_task>>
    /\ UNCHANGED <<qmVars, fnVars>>

\* Stage 2 returns or raises; stage2_complete and stage3_start are yielded and
\* stage 3 runs up to its call, or raises on an unknown editor.
EvStage2ReturnEarlyStart ==
    /\ wf_pc = "ev_s2_gather"
    /\ GatherDone(tasks, TRUE)
    /\ LET editor == ResolveEditor(effective.editor, effective.mode)
       IN  IF ProcessRaises(tasks)
           THEN /\ events' = Append(events, "error")
                /\ wf_pc' = "ev_done"
                /\ UNCHANGED <<tasks, stage2_results>>
           ELSE /\ stage2_results' = ProcessResults(task_info, tasks)
                /\ IF ~KnownBlock(editor)
                   THEN /\ events' = events \o <<"stage3_start", "stage2_complete", "error">>
                        /\ wf_pc' = "ev_done"
                        /\ tasks' = <<>>
                   ELSE /\ events' = events \o <<"stage3_start", "stage2_complete">>
                        /\ wf_pc' = "ev_s3_await"
                        /\ tasks' = <<Stage3Call(get_llm_block(editor).model)>>
    /\ UNCHANGED <<request, task_info, stage1_results, label_to_model, effective, bundle,
                   store, title_task>>
    /\ UNCHANGED <<qmVars, fnVars>>
EvStage2Return ==
    /\ wf_pc = "ev_s2_gather"
    /\ GatherDone(tasks, TRUE)
    /\ LET editor == ResolveEditor(effective.editor, effective.mode)
       IN  IF ProcessRaises(tasks)
           THEN /\ events' = Append(events, "error")
                /\ wf_pc' = "ev_done"
                /\ UNCHANGED <<tasks, stage2_results>>
           ELSE /\ stage2_results' = ProcessResults(task_info, tasks)
                /\ IF ~KnownBlock(editor)
                   THEN /\ events' = events \o <<"stage2_complete", "stage3_start", "error">>
                        /\ wf_pc' = "ev_done"
                        /\ tasks' = <<>>
                   ELSE /\ events' = events \o <<"stage2_complete", "stage3_start">>
                        /\ wf_pc' = "ev_s3_await"
                        /\ tasks' = <<Stage3Call(get_llm_block(editor).model)>>
    /\ UNCHANGED <<request, task_info, stage1_results, label_to_model, effective, bundle,
                   store, title_task>>
    /\ UNCHANGED <<qmVars, fnVars>>

\* Stage 3 returns and stage3_complete is yielded; the generator goes on to
\* the title task when there is one, else to saving the assistant turn.
EvStage3Return ==
    /\ wf_pc = "ev_s3_await"
    /\ Settled(tasks[1])
    /\ bundle' = <<CompleteBundle(stage1_results, stage2_results,
                                  Stage3Result(ResolveEditor(effective.editor, effective.mode),
                                               tasks[1].result),
                                  effective, label_to_model)>>
    /\ events' = Append(events, "stage3_complete")
    /\ wf_pc' = IF title_task # <<>> THEN "ev_title_await" ELSE "ev_save"
    /\ UNCHANGED <<request, tasks, task_info, stage1_results, stage2_results, label_to_model,
                   effective, store, title_task>>
    /\ UNCHANGED <<qmVars, fnVars>>

\* The awaited title task is done: its exception goes to the handler, else
\* title_complete is yielded and the generator goes on to saving.
EvTitleReturn ==
    /\ wf_pc = "ev_title_await"
    /\ Settled(title_task[1])
    /\ IF TitleRaises(title_task[1].result)
       THEN /\ events' = Append(events, "error")
            /\ wf_pc' = "ev_done"
       ELSE /\ events' = Append(events, "title_complete")
            /\ wf_pc' = "ev_save"
    /\ UNCHANGED <<request, tasks, task_info, stage1_results, stage2_results, label_to_model,
                   effective, bundle, store, title_task>>
    /\ UNCHANGED <<qmVars, fnVars>>

\* storage.add_assistant_message left out: the generator goes on to the
\* complete event with no assistant turn stored.
EvSaveAssistantSkipped ==
    /\ wf_pc = "ev_save"
    /\ wf_pc' = "ev_complete"
    /\ UNCHANGED <<request, tasks, task_info, stage1_results, stage2_results, label_to_model,
                   effective, bundle, events, store, title_task>>
    /\ UNCHANGED <<qmVars, fnVars>>

\* storage.add_assistant_message(conversation_id, stage1_results,
\* stage2_results, stage3_result): the assistant turn is stored.
EvSaveAssistant ==
    /\ wf_pc = "ev_save"
    /\ store' = AddTurn(store, "assistant")
    /\ wf_pc' = "ev_complete"
    /\ UNCHANGED <<request, tasks, task_info, stage1_results, stage2_results, label_to_model,
                   effective, bundle, events, title_task>>
    /\ UNCHANGED <<qmVars, fnVars>>

\* The complete event is yielded and the generator ends.
EvComplete ==
    /\ wf_pc = "ev_complete"
    /\ events' = Append(events, "complete")
    /\ wf_pc' = "ev_done"
    /\ UNCHANGED <<request, tasks, task_info, stage1_results, stage2_results, label_to_model,
                   effective, bundle, store, title_task>>
    /\ UNCHANGED <<qmVars, fnVars>>

\* The title task's coroutine: its query_model call.
TitleStart ==
    /\ title_task # <<>>
    /\ title_task[1].pc = "call"
    /\ title_task' = <<QmEnter(title_task[1])>>
    /\ UNCHANGED <<wfVars, qmVars, fnVars, effective, bundle, events, store>>

TitleAttempt ==
    /\ title_task # <<>>
    /\ title_task[1].pc = "post"
    /\ \E o \in RunOutcomes : title_task' = <<QmResponse(title_task[1], o)>>
    /\ UNCHANGED <<wfVars, qmVars, fnVars, effective, bundle, events, store>>

TitleSleep ==
    /\ title_task # <<>>
    /\ title_task[1].pc = "sleep"
    /\ title_task' = <<QmWake(title_task[1])>>
    /\ UNCHANGED <<wfVars, qmVars, fnVars, effective, bundle, events, store>>

-----------------------------------------------------------------------------
(* SpecEv: one run of event_generator driven to its end.                   *)

\* most unit calls one stage of a streamed run may start in the model
MaxStreamUnits == 1

StreamWriterIds == {"gpt-4o", "opus"}
StreamMatrixPairs == { <<"gpt-4o", "nikkei">>, <<"opus", "nikkei">> }
StreamWriterInputs == {NoList} \cup { List(ws) : ws \in SeqsUpTo(StreamWriterIds, MaxWriters) }
StreamMatrixInputs == {NoList} \cup { List(mx) : mx \in SeqsUpTo(StreamMatrixPairs, MaxMatrix) }
StreamEditorInputs == {NoneStr, "opus"}
StreamModeIds == {NoneStr, "simple"}

InitEv ==
    /\ qm = NewCall(QMModel, FALSE, 0)
    /\ qm_log = <<>>
    /\ qm_slept = <<>>
    /\ wf_pc = "ev_call"
    /\ \E ws \in StreamWriterInputs, mx \in StreamMatrixInputs, ed \in StreamEditorInputs,
          mode \in StreamModeIds, first \in BOOLEAN :
          LET req == StreamRequest(ws, mx, ed, NoLevel, mode, first)
              eff == StreamEffective(req)
          IN  /\ Len(ValidWriters(eff.writers)) <= MaxStreamUnits
              /\ Len(TaskInfos(eff.matrix)) <= MaxStreamUnits
              /\ request = req
    /\ tasks = <<>>
    /\ task_info = <<>>
    /\ stage1_results = <<>>
    /\ stage2_results = <<>>
    /\ label_to_model = <<>>
    /\ InitRunIdle

NextEv ==
    \/ EvStart
    \/ \E i \in 1..Len(tasks) : TaskStart(i)
    \/ \E i \in 1..Len(tasks) : RunTaskAttempt(i)
    \/ \E i \in 1..Len(tasks) : TaskSleep(i)
    \/ TitleStart
    \/ TitleAttempt
    \/ TitleSleep
    \/ EvStage1Return
    \/ EvStage2Return
    \/ EvStage3Return
    \/ EvTitleReturn
    \/ EvSaveAssistant
    \/ EvComplete

SpecEv == InitEv /\ [][NextEv]_vars

-----------------------------------------------------------------------------
(* Properties of event_generator, checked under SpecEv.                    *)

EventOrder ==
    <<"config", "stage1_start", "stage1_complete", "stage2_start", "stage2_complete",
      "stage3_start", "stage3_complete", "title_complete", "complete">>
EventOrderNoTitle == SelectSeq(EventOrder, LAMBDA t : t # "title_complete")

IsPrefix(a, b) == Len(a) <= Len(b) /\ SubSeq(b, 1, Len(a)) = a

EndsInError(evs) == evs # <<>> /\ evs[Len(evs)] = "error"

\* The events before the closing error event, all events when there is none.
Progress(evs) == IF EndsInError(evs) THEN SubSeq(evs, 1, Len(evs) - 1) ELSE evs

\* C20: the events yielded so far are a prefix of the fixed order (with or
\* without title_complete), possibly closed by one error event that follows
\* no complete event; the run is over exactly when the last event is
\* complete or error.
C20_EventOrder ==
    /\ \/ IsPrefix(Progress(events), EventOrder)
       \/ IsPrefix(Progress(events), EventOrderNoTitle)
    /\ EndsInError(events) => \A k \in 1..Len(Progress(events)) : Progress(events)[k] # "complete"
    /\ wf_pc = "ev_done" <=>
          (events # <<>> /\ events[Len(events)] \in {"complete", "error"})
    /\ wf_pc = "ev_done" => \A k \in 1..(Len(events) - 1) : events[k] \notin {"complete", "error"}

\* C20 witness: a first-message run yielded all nine events.
C20_Witness ==
    /\ wf_pc = "ev_done"
    /\ events = EventOrder

\* C20 witness: stage 2 raised and error closed the run after stage2_start.
C20_WitnessError ==
    /\ wf_pc = "ev_done"
    /\ events = <<"config", "stage1_start", "stage1_complete", "stage2_start", "error">>

\* C20 witness: a run without a title task yielded the eight other events.
C20_WitnessNoTitle ==
    /\ wf_pc = "ev_done"
    /\ events = EventOrderNoTitle

\* The call create_press_release makes for the same request:
\* run_press_release_workflow(..., mode_id = request.mode or DEFAULT_MODE).
SameRequestToWorkflow ==
    WorkflowRequest(request.writers, request.matrix, request.editor,
                    request.criticism_level, StreamMode(request.mode_id))

\* Stage 1 has returned to the generator.
EvPastStage1 == Len(events) >= 3 /\ events[3] = "stage1_complete"

\* C21: the generator runs with the settings the workflow resolves for the
\* same request, and a run whose stage 1 yields no draft creates no evaluator
\* call and no synthesizer call and ends with the workflow's result: empty
\* Draft and Evaluation lists and the SynthesisResult of the failure bundle.
C21_StreamAsWorkflow ==
    /\ wf_pc # "ev_call" => effective = Effective(SameRequestToWorkflow)
    /\ (EvPastStage1 /\ stage1_results = <<>>) =>
          /\ task_info = <<>>
          /\ SoftFrames
          /\ Len(tasks) = Len(ValidWriters(effective.writers))
          /\ stage2_results = <<>>
          /\ wf_pc = "ev_done" =>
                /\ Len(bundle) = 1
                /\ bundle[1].stage3 = FailedBundle(effective).stage3

\* What holds of the generator instead: same settings, and with a Draft the
\* frames of each stage are those the workflow creates.
C21_SameSettingsAndCalls ==
    /\ wf_pc # "ev_call" => effective = Effective(SameRequestToWorkflow)
    /\ wf_pc = "ev_s2_gather" =>
          /\ task_info = TaskInfos(ResolveMatrix(List(Effective(SameRequestToWorkflow).matrix),
                                                 Effective(SameRequestToWorkflow).mode))
          /\ Len(tasks) = Len(task_info)
          /\ SoftFrames
    /\ wf_pc = "ev_s3_await" => SynthesizerFrame

-----------------------------------------------------------------------------
(* SpecParse: parse_ranking_from_text applied to one evaluator output.     *)
(* Besides the tokens of the parser section, "h" is the words FINAL        *)
(* RANKING followed by other text on the same line: the pattern requires   *)
(* only whitespace between the optional colon and the line break, so it    *)
(* does not match there.                                                   *)

\* longest evaluator output, in tokens
MaxTextLen == 5

ParseTokens == {"H", "h", "NN", "x", "A", "B", "C"}

\* evaluation_text = result.get("content", ""): a text, or None for a null content.
ParseInputs == {NoContent} \cup { Some(t) : t \in SeqsUpTo(ParseTokens, MaxTextLen) }

\* re.search(pattern, None, flags) raises TypeError.
ParseRaises(content) == ~content.some

InitParse ==
    /\ qm = NewCall(QMModel, FALSE, 0)
    /\ qm_log = <<>>
    /\ qm_slept = <<>>
    /\ wf_pc = "parse_call"
    /\ request = NoRequest
    /\ tasks = <<>>
    /\ task_info = <<>>
    /\ stage1_results = <<>>
    /\ stage2_results = <<>>
    /\ label_to_model = <<>>
    /\ effective = NoEffective
    /\ bundle = <<>>
    /\ events = <<>>
    /\ store = <<>>
    /\ title_task = <<>>
    /\ \E c \in ParseInputs : fn_args = [text |-> c]
    /\ fn_result = <<>>

\* parsed_ranking = parse_ranking_from_text(evaluation_text)
ParseCall ==
    /\ wf_pc = "parse_call"
    /\ IF ParseRaises(fn_args.text)
       THEN /\ wf_pc' = "parse_raised"
            /\ fn_result' = fn_result
       ELSE /\ wf_pc' = "parse_returned"
            /\ fn_result' = <<parse_ranking_from_text(fn_args.text.text)>>
    /\ UNCHANGED <<qmVars, request, tasks, task_info, stage1_results, stage2_results,
                   label_to_model, runVars, fn_args>>

NextParse == ParseCall

SpecParse == InitParse /\ [][NextParse]_vars

-----------------------------------------------------------------------------
(* Properties of parse_ranking_from_text, checked under SpecParse.         *)

ParseReturned == wf_pc = "parse_returned"
ParsedText == fn_args.text.text
Parsed == fn_result[1]

\* The labels of the label tokens of text at the positions of idx.
LabelsAt(text, idx) ==
    { FullLabel(text[i]) : i \in { k \in idx : k \in 1..Len(text) /\ text[k] \in Range(LETTERS) } }

\* The first position at or after i that holds a blank line, Len(text) + 1 if none.
NextBlank(text, i) ==
    CHOOSE e \in i..(Len(text) + 1) :
        /\ e = Len(text) + 1 \/ text[e] = "NN"
        /\ \A k \in i..(e - 1) : text[k] # "NN"

\* The first position after i that holds no blank line, Len(text) + 1 if none.
AfterBlanks(text, i) ==
    CHOOSE b \in (i + 1)..(Len(text) + 1) :
        /\ b = Len(text) + 1 \/ text[b] # "NN"
        /\ \A k \in (i + 1)..(b - 1) : text[k] = "NN"

FirstOf(text, toks) ==
    CHOOSE i \in 1..Len(text) : text[i] \in toks /\ \A j \in 1..(i - 1) : text[j] \notin toks

\* C22, as stated: when the text contains the words FINAL RANKING ("H" or
\* "h"), the labels returned are those of the label tokens between the first
\* header and the first blank line after it, or the end of the text; without
\* a header they are those of the whole text.
C22_DesignatedSectionFirst ==
    ParseReturned =>
        LET text == ParsedText
            headers == {"H", "h"}
        IN  IF \E i \in 1..Len(text) : text[i] \in headers
            THEN LET h == FirstOf(text, headers)
                 IN  Range(Parsed) = LabelsAt(text, (h + 1)..(NextBlank(text, h + 1) - 1))
            ELSE Range(Parsed) = LabelsAt(text, 1..Len(text))

\* C22, amended: the header is a header line ("H": the words, an optional
\* colon, then only whitespace up to a line break); the section starts after
\* the blank lines that directly follow the first header line and ends at the
\* next blank line or at the end of the text; the labels returned are those of
\* the label tokens of that section and of no token elsewhere, and the whole
\* text is searched exactly when the text holds no header line.
C22_HeaderLineSection ==
    ParseReturned =>
        LET text == ParsedText
        IN  IF \E i \in 1..Len(text) : text[i] = "H"
            THEN LET h == FirstOf(text, {"H"})
                     s == AfterBlanks(text, h)
                 IN  Range(Parsed) = LabelsAt(text, s..(NextBlank(text, s) - 1))
            ELSE Range(Parsed) = LabelsAt(text, 1..Len(text))

\* A label before the header line, a blank line right after it, a section of
\* one label, a blank line, and a label after it: only the section's label.
C22_Witness ==
    /\ ParseReturned
    /\ ParsedText = <<"B", "H", "A", "NN", "C">>
    /\ Parsed = <<FullLabel("A")>>

\* Blank lines right after the header line do not end the section.
C22_WitnessBlankAfterHeader ==
    /\ ParseReturned
    /\ ParsedText = <<"C", "H", "NN", "A", "B">>
    /\ Parsed = <<FullLabel("A"), FullLabel("B")>>

\* No header line (the words with the list on the same line): the whole text.
C22_WitnessFallback ==
    /\ ParseReturned
    /\ ParsedText = <<"B", "h", "A", "NN", "C">>
    /\ Parsed = <<FullLabel("B"), FullLabel("A"), FullLabel("C")>>

\* The label tokens of the searched text, in order.
SearchedLabels ==
    LET IsLabel(t) == t \in Range(LETTERS)
        letters == SelectSeq(RankingSection(ParsedText), IsLabel)
    IN  [i \in 1..Len(letters) |-> FullLabel(letters[i])]

FirstOccurrence(labels, l) ==
    CHOOSE i \in 1..Len(labels) : labels[i] = l /\ \A j \in 1..(i - 1) : labels[j] # l

\* C23: the sequence returned holds no label twice, holds exactly the labels
\* of the searched text, and lists them in the order of their first
\* occurrence there.
C23_UniqueInFirstOccurrenceOrder ==
    ParseReturned =>
        /\ Distinct(Parsed)
        /\ Range(Parsed) = Range(SearchedLabels)
        /\ \A i, j \in 1..Len(Parsed) :
              i < j => FirstOccurrence(SearchedLabels, Parsed[i])
                         < FirstOccurrence(SearchedLabels, Parsed[j])

\* A section listing C, A, C, B parses to [C, A, B].
C23_Witness ==
    /\ ParseReturned
    /\ ParsedText = <<"H", "C", "A", "C", "B">>
    /\ Parsed = <<FullLabel("C"), FullLabel("A"), FullLabel("B")>>

\* C24: parse_ranking_from_text never raises on what stage 2 passes to it.
C24_ParseNeverRaises == wf_pc # "parse_raised"

\* What holds instead: it raises on a null content only, and on a text it
\* returns a sequence, empty exactly when the searched text has no label token.
C24_RaisesOnNullOnly ==
    /\ wf_pc = "parse_raised" => fn_args.text = NoContent
    /\ ParseReturned =>
          /\ fn_args.text.some
          /\ Parsed \in Seq({ FullLabel(LETTERS[i]) : i \in 1..Len(LETTERS) })
          /\ Parsed = <<>> <=> SearchedLabels = <<>>

-----------------------------------------------------------------------------
(* The aggregation functions (backend/evaluation.py).  A dict is modelled   *)
(* by what the code reads of it: label_to_model as the sequence of its      *)
(* items in insertion order, a result dict as a sequence of entries or as   *)
(* a function of its keys.  avg_rank is held in hundredths.                 *)

RECURSIVE Sum(_)
Sum(s) == IF s = <<>> THEN 0 ELSE Head(s) + Sum(Tail(s))

\* round(s / n, 2), in hundredths.  The quotient is a tie between two
\* hundredths only when n is a multiple of 8; for n = 8 the float is exact
\* and round() rounds the tie to the even hundredth.
Round2Down(s, n) == (100 * s) \div n
Round2(s, n) ==
    LET q == (100 * s) \div n
        r == (100 * s) % n
    IN  IF 2 * r < n THEN q
        ELSE IF 2 * r > n THEN q + 1
        ELSE IF q % 2 = 0 THEN q ELSE q + 1

\* for position, label in enumerate(parsed, start=1): the positions at which
\* one ranking holds label.
PositionsInZeroBased(parsed, label) ==
    SelectSeq([i \in 1..Len(parsed) |-> i - 1], LAMBDA i : parsed[i + 1] = label)
PositionsIn(parsed, label) ==
    SelectSeq([i \in 1..Len(parsed) |-> i], LAMBDA i : parsed[i] = label)

\* label_rankings[label] after the loop over the evaluations.
RECURSIVE LabelRankings(_, _)
LabelRankings(evaluations, label) ==
    IF evaluations = <<>> THEN <<>>
    ELSE PositionsIn(Head(evaluations).parsed_ranking, label)
         \o LabelRankings(Tail(evaluations), label)

\* if rankings:
HasRankingsAlways(rankings) == TRUE
HasRankings(rankings) == rankings # <<>>

\* sum(rankings) / len(rankings) raises ZeroDivisionError on an empty list.
MeanRaises(rankings) == Len(rankings) = 0

AggregateRaises(evaluations, mapping) ==
    \E i \in 1..Len(mapping) :
        LET rankings == LabelRankings(evaluations, mapping[i].label)
        IN  HasRankings(rankings) /\ MeanRaises(rankings)

AggregateEntry(item, rankings) ==
    [label |-> item.label, llm_id |-> item.llm_id,
     avg_rank |-> Round2(Sum(rankings), Len(rankings)),
     rankings_count |-> Len(rankings)]

\* results before the sort: one entry per label with rankings, in the order
\* of label_to_model.
RECURSIVE AggregateResults(_, _)
AggregateResults(evaluations, mapping) ==
    IF mapping = <<>> THEN <<>>
    ELSE LET rankings == LabelRankings(evaluations, Head(mapping).label)
         IN  (IF HasRankings(rankings)
              THEN <<AggregateEntry(Head(mapping), rankings)>> ELSE <<>>)
             \o AggregateResults(evaluations, Tail(mapping))

\* results.sort(key=lambda x: x["avg_rank"]): list.sort is stable.
\* An entry moves in front of another only when its key is smaller.
SortsBeforeOrEqual(e, x) == e.avg_rank <= x.avg_rank
SortsBefore(e, x) == e.avg_rank < x.avg_rank

RECURSIVE InsertByAvgRank(_, _)
InsertByAvgRank(sorted, e) ==
    IF sorted = <<>> THEN <<e>>
    ELSE IF SortsBefore(e, Head(sorted)) THEN <<e>> \o sorted
    ELSE <<Head(sorted)>> \o InsertByAvgRank(Tail(sorted), e)

RECURSIVE SortByAvgRank(_)
SortByAvgRank(results) ==
    IF results = <<>> THEN <<>>
    ELSE InsertByAvgRank(SortByAvgRank(SubSeq(results, 1, Len(results) - 1)),
                         results[Len(results)])

calculate_aggregate_rankings(evaluations, mapping) ==
    SortByAvgRank(AggregateResults(evaluations, mapping))

\* by_persona after the loop: the evaluations of each persona_id, the
\* persona_ids in the order of their first evaluation.
RECURSIVE GroupByPersona(_, _)
GroupByPersona(evaluations, by_persona) ==
    IF evaluations = <<>> THEN by_persona
    ELSE LET ev == Head(evaluations)
             Same(i) == by_persona[i].persona_id = ev.persona_id
         IN  GroupByPersona(Tail(evaluations),
                IF \E i \in 1..Len(by_persona) : Same(i)
                THEN [i \in 1..Len(by_persona) |->
                        IF Same(i)
                        THEN [by_persona[i] EXCEPT !.evaluations = Append(@, ev)]
                        ELSE by_persona[i]]
                ELSE Append(by_persona, [persona_id |-> ev.persona_id,
                                         evaluations |-> <<ev>>]))

BreakdownRaises(evaluations, mapping) ==
    LET by_persona == GroupByPersona(evaluations, <<>>)
    IN  \E i \in 1..Len(by_persona) : AggregateRaises(by_persona[i].evaluations, mapping)

calculate_persona_breakdown_global(evaluations, mapping) ==
    LET by_persona == GroupByPersona(evaluations, <<>>)
    IN  [i \in 1..Len(by_persona) |->
            [persona_id |-> by_persona[i].persona_id,
             rankings |-> calculate_aggregate_rankings(evaluations, mapping)]]
calculate_persona_breakdown(evaluations, mapping) ==
    LET by_persona == GroupByPersona(evaluations, <<>>)
    IN  [i \in 1..Len(by_persona) |->
            [persona_id |-> by_persona[i].persona_id,
             rankings |-> calculate_aggregate_rankings(by_persona[i].evaluations, mapping)]]

\* sorted(list(...)) of backend and profile ids: the ids of the model in
\* string order.
IdsInOrder == <<"gemini-pro", "gpt-4o", "nikkei", "web">>
SortedIds(S) == SelectSeq(IdsInOrder, LAMBDA x : x \in S)
SortedLabels(S) ==
    SelectSeq([i \in 1..Len(LETTERS) |-> FullLabel(LETTERS[i])], LAMBDA l : l \in S)

\* data[llm_id][persona] after the inner loop over one parsed ranking: a
\* later assignment to the same label replaces the earlier one.
RowAfter(row, parsed) ==
    [l \in (DOMAIN row) \cup Range(parsed) |->
        IF l \in Range(parsed)
        THEN CHOOSE i \in 1..Len(parsed) :
                 parsed[i] = l /\ \A j \in (i + 1)..Len(parsed) : parsed[j] # l
        ELSE row[l]]

RECURSIVE CrossData(_, _)
CrossData(evaluations, data) ==
    IF evaluations = <<>> THEN data
    ELSE LET ev == Head(evaluations)
             llm_id == ev.llm_id
             persona == ev.persona_id
             d1 == IF llm_id \in DOMAIN data THEN data ELSE data @@ (llm_id :> <<>>)
             d2 == IF persona \in DOMAIN d1[llm_id] THEN d1
                   ELSE [d1 EXCEPT ![llm_id] = @ @@ (persona :> <<>>)]
         IN  CrossData(Tail(evaluations),
                       [d2 EXCEPT ![llm_id][persona] = RowAfter(@, ev.parsed_ranking)])

build_cross_table(evaluations, mapping) ==
    [headers |->
        [llms |-> SortedIds({ evaluations[i].llm_id : i \in 1..Len(evaluations) }),
         personas |-> SortedIds({ evaluations[i].persona_id : i \in 1..Len(evaluations) }),
         drafts |-> SortedLabels({ mapping[i].label : i \in 1..Len(mapping) })],
     data |-> CrossData(evaluations, <<>>)]

-----------------------------------------------------------------------------
(* SpecAgg: the analytics of one run, computed from the Evaluation list and *)
(* the Label mapping stage 2 returned.                                      *)

\* most Evaluations of one run
MaxEvals == 3

\* Evaluator outputs: no label, one label, rankings of two drafts, and
\* rankings that name a third draft.
AggTexts == { <<"x">>, <<"A">>, <<"A", "B">>, <<"H", "B", "A">>,
              <<"C", "A">>, <<"B", "C", "A">> }
AggPairs == { <<"gpt-4o", "nikkei">>, <<"gemini-pro", "nikkei">>, <<"gpt-4o", "web">> }
AggEvaluations == { Evaluation(TaskInfo(pair), Some(text)) : pair \in AggPairs, text \in AggTexts }

InitAgg ==
    /\ qm = NewCall(QMModel, FALSE, 0)
    /\ qm_log = <<>>
    /\ qm_slept = <<>>
    /\ wf_pc = "analytics_call"
    /\ request = NoRequest
    /\ tasks = <<>>
    /\ task_info = <<>>
    /\ stage1_results = <<>>
    /\ stage2_results = <<>>
    /\ label_to_model = <<>>
    /\ effective = NoEffective
    /\ bundle = <<>>
    /\ events = <<>>
    /\ store = <<>>
    /\ title_task = <<>>
    /\ \E ds \in DraftInputs, evs \in SeqsUpTo(AggEvaluations, MaxEvals) :
          fn_args = [evaluations |-> evs, label_to_model |-> create_label_mapping(ds)]
    /\ fn_result = <<>>

\* aggregate_rankings, persona_breakdown and cross_table of the run.
Analytics ==
    /\ wf_pc = "analytics_call"
    /\ LET evaluations == fn_args.evaluations
           mapping == fn_args.label_to_model
       IN  IF AggregateRaises(evaluations, mapping) \/ BreakdownRaises(evaluations, mapping)
           THEN /\ wf_pc' = "analytics_raised"
                /\ fn_result' = fn_result
           ELSE /\ wf_pc' = "analytics_returned"
                /\ fn_result' =
                      <<[aggregate_rankings |-> calculate_aggregate_rankings(evaluations, mapping),
                         persona_breakdown |-> calculate_persona_breakdown(evaluations, mapping),
                         cross_table |-> build_cross_table(evaluations, mapping)]>>
    /\ UNCHANGED <<qmVars, request, tasks, task_info, stage1_results, stage2_results,
                   label_to_model, runVars, fn_args>>

NextAgg == Analytics

SpecAgg == InitAgg /\ [][NextAgg]_vars

-----------------------------------------------------------------------------
(* Properties of the aggregation functions, checked under SpecAgg.         *)

AnalyticsReturned == wf_pc = "analytics_returned"
Evaluations == fn_args.evaluations
Mapping == fn_args.label_to_model
MappingLabels == { Mapping[i].label : i \in 1..Len(Mapping) }
Aggregate == fn_result[1].aggregate_rankings
Breakdown == fn_result[1].persona_breakdown
CrossTable == fn_result[1].cross_table

\* The Evaluations whose parsed ranking mentions label, by index.
Mentions(label) ==
    { k \in 1..Len(Evaluations) : label \in Range(Evaluations[k].parsed_ranking) }

\* The 1-based position of label in the parsed ranking of Evaluation k.
PositionOf(k, label) ==
    CHOOSE i \in 1..Len(Evaluations[k].parsed_ranking) :
        Evaluations[k].parsed_ranking[i] = label

RECURSIVE PositionSum(_, _)
PositionSum(label, ks) ==
    IF ks = {} THEN 0
    ELSE LET k == CHOOSE x \in ks : TRUE
         IN  PositionOf(k, label) + PositionSum(label, ks \ {k})

EntriesFor(list, label) == { i \in 1..Len(list) : list[i].label = label }

\* C25, as stated: every Label of the mapping with at least one mention has
\* one entry, whose rankings_count is the number of Evaluations that mention
\* it and whose avg_rank is the arithmetic mean of its positions in them; a
\* Label without mention has no entry.
C25_MeanOfPositions ==
    AnalyticsReturned =>
        \A label \in MappingLabels :
            IF Mentions(label) = {} THEN EntriesFor(Aggregate, label) = {}
            ELSE /\ Cardinality(EntriesFor(Aggregate, label)) = 1
                 /\ \A i \in EntriesFor(Aggregate, label) :
                       /\ Aggregate[i].rankings_count = Cardinality(Mentions(label))
                       /\ Aggregate[i].avg_rank * Cardinality(Mentions(label))
                            = 100 * PositionSum(label, Mentions(label))

\* C25, amended: avg_rank is that mean rounded to two decimals, that is the
\* hundredth nearest to it.
C25_MeanRoundedToTwoDecimals ==
    AnalyticsReturned =>
        \A label \in MappingLabels :
            IF Mentions(label) = {} THEN EntriesFor(Aggregate, label) = {}
            ELSE /\ Cardinality(EntriesFor(Aggregate, label)) = 1
                 /\ \A i \in EntriesFor(Aggregate, label) :
                       LET n == Cardinality(Mentions(label))
                           d == 100 * PositionSum(label, Mentions(label))
                                  - Aggregate[i].avg_rank * n
                       IN  /\ Aggregate[i].rankings_count = n
                           /\ 2 * d <= n
                           /\ 2 * d >= 0 - n

\* Two Labels, the first at positions 1, 2, 2 (mean 1.67), the second
\* mentioned once.
C25_Witness ==
    /\ AnalyticsReturned
    /\ Len(Mapping) = 2
    /\ \E i, j \in 1..Len(Aggregate) :
          /\ Aggregate[i].label = Mapping[1].label
          /\ Aggregate[i].rankings_count = 3
          /\ Aggregate[i].avg_rank = 167
          /\ Aggregate[j].label = Mapping[2].label
          /\ Aggregate[j].rankings_count = 1

\* A Label of the mapping that no Evaluation mentions has no entry, next to
\* one that has.
C25_WitnessOmitted ==
    /\ AnalyticsReturned
    /\ Len(Mapping) = 2
    /\ Len(Evaluations) = 2
    /\ Len(Aggregate) = 1
    /\ Mentions(Mapping[2].label) = {}

MappingIndex(label) == CHOOSE i \in 1..Len(Mapping) : Mapping[i].label = label

\* C26: the list returned by calculate_aggregate_rankings is ascending in
\* avg_rank, and entries with equal avg_rank stand in the order of their
\* Labels in the mapping.
C26_SortedAscendingStable ==
    AnalyticsReturned =>
        \A i, j \in 1..Len(Aggregate) :
            i < j =>
                /\ Aggregate[i].avg_rank <= Aggregate[j].avg_rank
                /\ Aggregate[i].avg_rank = Aggregate[j].avg_rank
                     => MappingIndex(Aggregate[i].label) < MappingIndex(Aggregate[j].label)

\* The second Label of the mapping has the lower mean and comes first.
C26_Witness ==
    /\ AnalyticsReturned
    /\ Len(Aggregate) = 2
    /\ Aggregate[1].label = Mapping[2].label
    /\ Aggregate[1].avg_rank < Aggregate[2].avg_rank

\* Two Labels with the same mean, each from two Evaluations.
C26_WitnessTie ==
    /\ AnalyticsReturned
    /\ Len(Aggregate) = 2
    /\ Aggregate[1].avg_rank = 150
    /\ Aggregate[2].avg_rank = 150
    /\ Aggregate[1].label = Mapping[1].label

\* The Evaluations with every label outside the run's Label set deleted from
\* each parsed ranking.
WithoutForeign ==
    [k \in 1..Len(Evaluations) |->
        [Evaluations[k] EXCEPT !.parsed_ranking =
            SelectSeq(@, LAMBDA l : l \in MappingLabels)]]

SomeForeign ==
    \E k \in 1..Len(Evaluations) :
        \E l \in Range(Evaluations[k].parsed_ranking) : l \notin MappingLabels

\* C27: the global aggregate of the Evaluations is the global aggregate of
\* the same Evaluations without their foreign labels.
C27_ForeignIgnored ==
    AnalyticsReturned =>
        Aggregate = calculate_aggregate_rankings(WithoutForeign, Mapping)

\* What holds instead: the foreign labels change neither the Labels that have
\* an entry nor their counts, and they never lower a mean position.
C27_ForeignKeepsCounts ==
    AnalyticsReturned =>
        LET clean == calculate_aggregate_rankings(WithoutForeign, Mapping)
        IN  /\ Len(clean) = Len(Aggregate)
            /\ \A i \in 1..Len(Aggregate) :
                  \E j \in 1..Len(clean) :
                      /\ clean[j].label = Aggregate[i].label
                      /\ clean[j].llm_id = Aggregate[i].llm_id
                      /\ clean[j].rankings_count = Aggregate[i].rankings_count
                      /\ clean[j].avg_rank <= Aggregate[i].avg_rank
            /\ ~SomeForeign => clean = Aggregate

\* Every entry of a list refers to a Label of the run, each Label once.
KnownLabelsOnce(list) ==
    /\ \A i \in 1..Len(list) : list[i].label \in MappingLabels
    /\ \A i, j \in 1..Len(list) : list[i].label = list[j].label => i = j

\* C28: calculate_aggregate_rankings and calculate_persona_breakdown never
\* raise, and every entry of the lists they return refers to a Label of the
\* run's Label set, each Label at most once per list.
C28_NoRaiseKnownLabelsOnce ==
    /\ wf_pc # "analytics_raised"
    /\ AnalyticsReturned =>
          /\ KnownLabelsOnce(Aggregate)
          /\ \A p \in 1..Len(Breakdown) : KnownLabelsOnce(Breakdown[p].rankings)

\* Evaluations of two profiles that mention a foreign label, and a Label of
\* the mapping that one profile never mentions.
C28_Witness ==
    /\ AnalyticsReturned
    /\ SomeForeign
    /\ Len(Mapping) = 2
    /\ Len(Aggregate) = 2
    /\ Len(Breakdown) = 2
    /\ \E p \in 1..Len(Breakdown) : Len(Breakdown[p].rankings) = 1

\* The profile ids of the Evaluations.
ProfileIds == { Evaluations[k].persona_id : k \in 1..Len(Evaluations) }

\* The Evaluations of one profile id, in order.
Partition(persona_id) == SelectSeq(Evaluations, LAMBDA ev : ev.persona_id = persona_id)

\* C30: the breakdown has one entry per profile id that has an Evaluation and
\* none for any other, and the entry of a profile id is the global aggregate
\* of the Evaluations of that profile id alone.
C30_BreakdownIsAggregatePerPartition ==
    AnalyticsReturned =>
        /\ { Breakdown[p].persona_id : p \in 1..Len(Breakdown) } = ProfileIds
        /\ \A p, q \in 1..Len(Breakdown) :
              Breakdown[p].persona_id = Breakdown[q].persona_id => p = q
        /\ \A p \in 1..Len(Breakdown) :
              Breakdown[p].rankings
                = calculate_aggregate_rankings(Partition(Breakdown[p].persona_id), Mapping)

\* Two profiles whose lists differ from each other and from the global one.
C30_Witness ==
    /\ AnalyticsReturned
    /\ Len(Breakdown) = 2
    /\ Breakdown[1].rankings # Breakdown[2].rankings
    /\ Breakdown[1].rankings # Aggregate
    /\ Breakdown[2].rankings # Aggregate
    /\ Len(Breakdown[1].rankings) = 2

\* C29: data[backend id][profile id][Label] is the position of the Label in
\* the parsed ranking of that Evaluation, the header lists hold the backend
\* ids and the profile ids of the Evaluations, and every key of data, at each
\* of its three levels, is in the header list of that level.
C29_CrossTableWithinHeaders ==
    AnalyticsReturned =>
        LET data == CrossTable.data
            headers == CrossTable.headers
        IN  /\ \A k \in 1..Len(Evaluations) :
                  LET ev == Evaluations[k]
                  IN  /\ ev.llm_id \in DOMAIN data
                      /\ ev.persona_id \in DOMAIN data[ev.llm_id]
                      /\ \A i \in 1..Len(ev.parsed_ranking) :
                            /\ ev.parsed_ranking[i] \in DOMAIN data[ev.llm_id][ev.persona_id]
                            /\ data[ev.llm_id][ev.persona_id][ev.parsed_ranking[i]] = i
            /\ Range(headers.llms) = { Evaluations[k].llm_id : k \in 1..Len(Evaluations) }
            /\ Range(headers.personas) = ProfileIds
            /\ \A b \in DOMAIN data :
                  /\ b \in Range(headers.llms)
                  /\ \A p \in DOMAIN data[b] :
                        /\ p \in Range(headers.personas)
                        /\ \A l \in DOMAIN data[b][p] : l \in Range(headers.drafts)

\* The last Evaluation of a backend id and profile id that mentions label.
LastMention(b, p, label) ==
    CHOOSE k \in 1..Len(Evaluations) :
        /\ Evaluations[k].llm_id = b /\ Evaluations[k].persona_id = p
        /\ label \in Range(Evaluations[k].parsed_ranking)
        /\ \A n \in (k + 1)..Len(Evaluations) :
              ~(/\ Evaluations[n].llm_id = b /\ Evaluations[n].persona_id = p
                /\ label \in Range(Evaluations[n].parsed_ranking))

\* What holds instead: the backend and profile keys are those of the headers;
\* the label keys of a cell are all the labels its Evaluations mention,
\* foreign ones included, each with its position in the last Evaluation that
\* mentions it; headers.drafts is the Label set of the run.
C29_CrossTableAsBuilt ==
    AnalyticsReturned =>
        LET data == CrossTable.data
            headers == CrossTable.headers
        IN  /\ DOMAIN data = Range(headers.llms)
            /\ \A b \in DOMAIN data : DOMAIN data[b] \subseteq Range(headers.personas)
            /\ Range(headers.drafts) = MappingLabels
            /\ \A b \in DOMAIN data : \A p \in DOMAIN data[b] :
                  /\ DOMAIN data[b][p] =
                        UNION { Range(Evaluations[k].parsed_ranking) :
                                  k \in { n \in 1..Len(Evaluations) :
                                            /\ Evaluations[n].llm_id = b
                                            /\ Evaluations[n].persona_id = p } }
                  /\ \A l \in DOMAIN data[b][p] :
                        data[b][p][l] = PositionOf(LastMention(b, p, l), l)

\* Every Evaluation carries the same ranking, which lists each Label of the
\* run once.
Unanimous ==
    /\ Len(Evaluations) >= 1
    /\ \A k \in 1..Len(Evaluations) :
          Evaluations[k].parsed_ranking = Evaluations[1].parsed_ranking
    /\ Len(Evaluations[1].parsed_ranking) = Len(Mapping)
    /\ Range(Evaluations[1].parsed_ranking) = MappingLabels

\* C32: when every Evaluation carries the same full ranking of the run's
\* Labels, the global aggregate lists the Labels in that order, the i-th with
\* mean position i and with a count equal to the number of Evaluations.
C32_UnanimousRankingIsAggregate ==
    (AnalyticsReturned /\ Unanimous) =>
        /\ Len(Aggregate) = Len(Mapping)
        /\ \A i \in 1..Len(Aggregate) :
              /\ Aggregate[i].label = Evaluations[1].parsed_ranking[i]
              /\ Aggregate[i].avg_rank = 100 * i
              /\ Aggregate[i].rankings_count = Len(Evaluations)

\* Two evaluators of different profiles both rank the second draft first.
C32_Witness ==
    /\ AnalyticsReturned
    /\ Unanimous
    /\ Len(Evaluations) = 2
    /\ Evaluations[1].persona_id # Evaluations[2].persona_id
    /\ Len(Mapping) = 2
    /\ Aggregate[1].label = Mapping[2].label

\* The rankings_count of label in a list, 0 when the list has no entry for it.
CountIn(list, label) ==
    IF EntriesFor(list, label) = {} THEN 0
    ELSE list[CHOOSE i \in EntriesFor(list, label) : TRUE].rankings_count

\* C38: for every Label of the run, its rankings_count in the global
\* aggregate is the sum of its rankings_count over the lists of the breakdown.
C38_CountsAddUp ==
    AnalyticsReturned =>
        \A label \in MappingLabels :
            CountIn(Aggregate, label)
              = Sum([p \in 1..Len(Breakdown) |-> CountIn(Breakdown[p].rankings, label)])

\* A Label mentioned under two profiles, twice under one of them, and absent
\* from no list; another Label absent from one list.
C38_Witness ==
    /\ AnalyticsReturned
    /\ Len(Breakdown) = 2
    /\ Len(Mapping) = 2
    /\ CountIn(Aggregate, Mapping[1].label) = 3
    /\ CountIn(Breakdown[1].rankings, Mapping[1].label) = 2
    /\ CountIn(Breakdown[2].rankings, Mapping[1].label) = 1
    /\ CountIn(Aggregate, Mapping[2].label) = 1

-----------------------------------------------------------------------------
(* SpecPure: the three aggregation functions called, in any order and more  *)
(* than once, on the Evaluation list and the Label mapping the caller       *)
(* holds (stage2_results, label_to_model).  Python passes the two objects   *)
(* by reference, so what a function did to its arguments shows in the       *)
(* caller's variables; fn_args keeps their values from before the first     *)
(* call, fn_result the number of calls and every (function, output) seen.   *)

\* most calls of the aggregation functions in one behaviour
MaxRuns == 2
\* most Evaluations in SpecPure
MaxPureEvals == 2

InitPure ==
    /\ qm = NewCall(QMModel, FALSE, 0)
    /\ qm_log = <<>>
    /\ qm_slept = <<>>
    /\ wf_pc = "analytics"
    /\ request = NoRequest
    /\ tasks = <<>>
    /\ task_info = <<>>
    /\ stage1_results = <<>>
    /\ \E ds \in DraftInputs, evs \in SeqsUpTo(AggEvaluations, MaxPureEvals) :
          /\ stage2_results = evs
          /\ label_to_model = create_label_mapping(ds)
          /\ fn_args = [evaluations |-> evs, label_to_model |-> create_label_mapping(ds)]
    /\ effective = NoEffective
    /\ bundle = <<>>
    /\ events = <<>>
    /\ store = <<>>
    /\ title_task = <<>>
    /\ fn_result = [runs |-> 0, outputs |-> {}]

Ran(function, output) ==
    [runs |-> fn_result.runs + 1,
     outputs |-> fn_result.outputs \cup {[function |-> function, output |-> output]}]

\* calculate_aggregate_rankings(stage2_results, label_to_model): reads its
\* arguments, builds label_rankings and results anew, sorts results.
RunAggregate ==
    /\ wf_pc = "analytics"
    /\ fn_result.runs < MaxRuns
    /\ fn_result' = Ran("calculate_aggregate_rankings",
                        calculate_aggregate_rankings(stage2_results, label_to_model))
    /\ UNCHANGED <<qmVars, wfVars, runVars, fn_args>>

\* calculate_persona_breakdown(stage2_results, label_to_model): by_persona
\* holds new lists of the same Evaluation dicts, none of which is written.
RunBreakdownConsuming ==
    /\ wf_pc = "analytics"
    /\ fn_result.runs < MaxRuns
    /\ fn_result' = Ran("calculate_persona_breakdown",
                        calculate_persona_breakdown(stage2_results, label_to_model))
    /\ stage2_results' = <<>>
    /\ UNCHANGED <<qmVars, wf_pc, request, tasks, task_info, stage1_results, label_to_model,
                   runVars, fn_args>>
RunBreakdown ==
    /\ wf_pc = "analytics"
    /\ fn_result.runs < MaxRuns
    /\ fn_result' = Ran("calculate_persona_breakdown",
                        calculate_persona_breakdown(stage2_results, label_to_model))
    /\ UNCHANGED <<qmVars, wfVars, runVars, fn_args>>

\* build_cross_table(stage2_results, label_to_model): llms, personas, drafts
\* and data are new objects.
RunCrossTable ==
    /\ wf_pc = "analytics"
    /\ fn_result.runs < MaxRuns
    /\ fn_result' = Ran("build_cross_table", build_cross_table(stage2_results, label_to_model))
    /\ UNCHANGED <<qmVars, wfVars, runVars, fn_args>>

NextPure == RunAggregate \/ RunBreakdown \/ RunCrossTable

SpecPure == InitPure /\ [][NextPure]_vars

C31_WitnessTwoFunctions ==
    /\ fn_result.runs = 2
    /\ Cardinality(fn_result.outputs) = 2
    /\ Len(stage2_results) = 2
    /\ \E x \in fn_result.outputs : x.function = "build_cross_table"

-----------------------------------------------------------------------------
(* Further properties of stage 2, checked under Spec.                      *)

\* The evaluator calls that returned a response, by position.
ReturnedCalls == { i \in 1..Len(tasks) : tasks[i].result.tag = "return" }

\* The k-th of them, in the order of the calls.
NthReturned(k) ==
    CHOOSE i \in ReturnedCalls : Cardinality({ j \in ReturnedCalls : j < i }) = k - 1

\* C34: when stage 2 returns, there is one call per assignment with known
\* ids, in matrix order; the Evaluations are those of the calls that returned
\* a response, in the order of the calls, and each carries the backend id and
\* profile id of the assignment of its call together with the text of that
\* call; a call that was absent contributes none.
C34_EvaluationCarriesItsAssignment ==
    (wf_pc = "s2_returned" /\ tasks # <<>>) =>
        /\ Len(tasks) = Len(ValidAssignments)
        /\ Len(stage2_results) = Cardinality(ReturnedCalls)
        /\ \A k \in 1..Len(stage2_results) :
              LET i == NthReturned(k)
              IN  /\ stage2_results[k].llm_id = ValidAssignments[i][1]
                  /\ stage2_results[k].persona_id = ValidAssignments[i][2]
                  /\ stage2_results[k].model = tasks[i].model
                  /\ stage2_results[k].evaluation = tasks[i].result.content.text

\* The first call was absent, the second returned a ranking: one Evaluation,
\* of the second assignment.
C34_Witness ==
    /\ wf_pc = "s2_returned"
    /\ Len(tasks) = 2
    /\ tasks[1].model # tasks[2].model
    /\ ReturnedCalls = {2}
    /\ Len(stage2_results) = 1
    /\ stage2_results[1].llm_id = ValidAssignments[2][1]
    /\ stage2_results[1].parsed_ranking # <<>>

\* The first pair of the matrix was skipped as unknown.
C34_WitnessSkipped ==
    /\ wf_pc = "s2_returned"
    /\ Len(Assignments) = 2
    /\ ~ValidPair(Assignments[1])
    /\ Len(tasks) = 1
    /\ Len(stage2_results) = 1

-----------------------------------------------------------------------------
(* Further properties of run_press_release_workflow, checked under SpecWF. *)

\* C35: a run that reaches stage 3 with a synthesizer id that is not a known
\* backend id ends in stage 3's ValueError: it holds drafts, no synthesizer
\* call was created and no bundle is returned; with a known id stage 3 does
\* not raise it.
C35_UnknownSynthesizerAborts ==
    /\ wf_pc = "wf_s3_value_error" =>
          /\ ~KnownBlock(effective.editor)
          /\ stage1_results # <<>>
          /\ ~SynthesizerFrame
          /\ bundle = <<>>
    /\ (WfOver /\ stage1_results # <<>> /\ ~KnownBlock(effective.editor)) =>
          /\ wf_pc \in {"wf_s3_value_error", "wf_s2_type_error"}
          /\ bundle = <<>>
    /\ SynthesizerFrame => KnownBlock(effective.editor)

\* The run has drafts and an Evaluation with a ranking when stage 3 raises.
C35_Witness ==
    /\ wf_pc = "wf_s3_value_error"
    /\ stage1_results # <<>>
    /\ Len(stage2_results) = 1
    /\ stage2_results[1].parsed_ranking # <<>>
    /\ bundle = <<>>

-----------------------------------------------------------------------------
(* Further properties of query_model, checked under SpecQM.                *)

Malformed == Outcome("malformed", 200, NoContent)
Transport == Outcome("transport", 0, NoContent)

\* The last attempt made so far ended in a response with a success status and
\* a body without choices/message.
LastMalformed == qm_log # <<>> /\ qm_log[Len(qm_log)] = Malformed

\* C36: the attempt that ended in a malformed body was attempt Len(qm_log) - 1;
\* while retries remain the call sleeps 2 ^ attempt and then posts the next
\* attempt; after the last attempt the call is over, with None in soft mode
\* and with an OpenRouterError without code in hard mode.  A transport
\* failure in its place has the same effect.
C36_MalformedBodyLikeTransportFailure ==
    /\ LastMalformed =>
          LET n == Len(qm_log)
          IN  IF n - 1 < qm.max_retries
              THEN /\ qm.pc \in {"sleep", "post"}
                   /\ qm.pc = "sleep" => (qm.attempt = n - 1 /\ qm.delay = 2 ^ (n - 1))
                   /\ qm.pc = "post" => (/\ qm.attempt = n
                                         /\ Len(qm_slept) = n
                                         /\ qm_slept[n] = 2 ^ (n - 1))
              ELSE /\ qm.pc = "done"
                   /\ qm.attempt = n - 1
                   /\ IF qm.raise_on_error
                      THEN /\ qm.result.tag = "raise"
                           /\ qm.result.error.code = NoCode
                           /\ ~qm.result.error.is_credit_error
                      ELSE qm.result = ReturnedNone
    /\ qm.pc = "post" => QmResponse(qm, Malformed) = QmResponse(qm, Transport)

\* A malformed body on the first attempt was retried, and the last attempt,
\* malformed again, ended a hard-mode call.
C36_Witness ==
    /\ LastMalformed
    /\ Len(qm_log) = 3
    /\ qm_log[1] = Malformed
    /\ qm_slept = <<1, 2>>
    /\ qm.raise_on_error
    /\ qm.result.tag = "raise"

\* The same in soft mode: the call returns None.
C36_WitnessSoft ==
    /\ LastMalformed
    /\ Len(qm_log) = 2
    /\ qm_slept = <<1>>
    /\ ~qm.raise_on_error
    /\ qm.result = ReturnedNone

-----------------------------------------------------------------------------
(* The stored turns of a streamed run, checked under SpecEv.               *)

Yielded(type) == \E k \in 1..Len(events) : events[k] = type

AssistantTurns == Len(SelectSeq(store, LAMBDA role : role = "assistant"))

\* C37: the assistant turn is stored at most once in a run and never before
\* stage3_complete was yielded; complete is yielded only after the turn was
\* stored; once the generator has started the user turn is stored first; a
\* run closed by an error event has stored the user turn and no assistant
\* turn.
C37_AssistantTurnOnceAfterStage3 ==
    /\ AssistantTurns <= 1
    /\ AssistantTurns = 1 => Yielded("stage3_complete")
    /\ Yielded("complete") => AssistantTurns = 1
    /\ wf_pc # "ev_call" => (store # <<>> /\ store[1] = "user")
    /\ (wf_pc = "ev_done" /\ EndsInError(events)) => store = <<"user">>

\* C37 witness: the assistant turn is stored and complete not yet yielded.
C37_Witness ==
    /\ wf_pc = "ev_complete"
    /\ store = <<"user", "assistant">>
    /\ ~Yielded("complete")

\* C37 witness: a run yielded complete with both turns stored.
C37_WitnessComplete ==
    /\ wf_pc = "ev_done"
    /\ Yielded("complete")
    /\ store = <<"user", "assistant">>

\* C37 witness: a stage raised after stage 1 had returned drafts and the run
\* ended with the user turn alone.
C37_WitnessStageError ==
    /\ wf_pc = "ev_done"
    /\ EndsInError(events)
    /\ Yielded("stage1_complete")
    /\ store = <<"user">>

\* C37 witness: the title task raised after stage3_complete and the run
\* ended with the user turn alone.
C37_WitnessTitleError ==
    /\ wf_pc = "ev_done"
    /\ EndsInError(events)
    /\ Yielded("stage3_complete")
    /\ store = <<"user">>

-----------------------------------------------------------------------------
(* The label mapping of a run, checked under SpecWF.                       *)

\* stage2_evaluate_drafts has been called in this run.
Stage2Called == PastStage1 /\ wf_pc # "wf_s2_call"

\* The mapping stage3_synthesize rebuilt, once it has.
Stage3Mapping == fn_args[1].label_to_model

ReportsMapping == bundle # <<>> /\ "label_to_model" \in DOMAIN bundle[1].metadata

\* C33: once stage 2 was called the mapping has one entry per Draft, the
\* labels are pairwise different, and the i-th entry gives the i-th Label to
\* the i-th Draft's origin; the mapping stage 3 rebuilds and the one the
\* metadata reports are the mapping stage 2 built.
C33_LabelMappingBijectiveAndStable ==
    /\ Stage2Called =>
          /\ Len(label_to_model) = Len(stage1_results)
          /\ Distinct([i \in 1..Len(label_to_model) |-> label_to_model[i].label])
          /\ \A i \in 1..Len(stage1_results) :
                /\ label_to_model[i].label = FullLabel(LETTERS[i])
                /\ label_to_model[i].llm_id = stage1_results[i].llm_id
    /\ fn_args # <<>> => Stage3Mapping = label_to_model
    /\ ReportsMapping => bundle[1].metadata.label_to_model = label_to_model
    /\ (wf_pc = "wf_returned" /\ stage1_results # <<>>) => (ReportsMapping /\ fn_args # <<>>)

\* C33 witness: a run of two Drafts of different origins returned; the three
\* mappings exist.
C33_Witness ==
    /\ wf_pc = "wf_returned"
    /\ Len(stage1_results) = 2
    /\ stage1_results[1].llm_id # stage1_results[2].llm_id
    /\ fn_args # <<>>
    /\ ReportsMapping

\* C33 witness: the same writer was given twice; both Drafts have a Label of
\* their own and the two Labels lead to the one origin.
C33_WitnessSameOrigin ==
    /\ wf_pc = "wf_returned"
    /\ Len(stage1_results) = 2
    /\ stage1_results[1].llm_id = stage1_results[2].llm_id
    /\ Len(label_to_model) = 2
    /\ label_to_model[1].label # label_to_model[2].label

=============================================================================
